---------------------------- MODULE Spec2Model ----------------------------
(***************************************************************************)
(* Recruitment back office: payment tables, derived balances, the          *)
(* interview JOINED transition and the unified payment ledger.             *)
(*                                                                         *)
(* Every table is a sequence of rows; a row's id is its index.  Every      *)
(* request handler is one action (one database transaction).  `last' is    *)
(* the response of the most recent request, `pages' are the ledger pages   *)
(* fetched since the last write.  `txns' are the transactions of the       *)
(* requests that run concurrently, between their first read and commit.   *)
(***************************************************************************)
EXTENDS Integers, Sequences, FiniteSets, TLC

VARIABLES companies, company_payments, jobs, candidates, course_structure_fees,
          candidate_payments, interviews, joined_candidates, placement_incomes,
          placement_income_payments, now, last, pages, txns, reply

dbvars == <<companies, company_payments, jobs, candidates, course_structure_fees,
            candidate_payments, interviews, joined_candidates, placement_incomes,
            placement_income_payments>>

vars == <<companies, company_payments, jobs, candidates, course_structure_fees,
          candidate_payments, interviews, joined_candidates, placement_incomes,
          placement_income_payments, now, last, pages, txns, reply>>

---------------------------------------------------------------------------
(* Bounds of the model *)

MaxCompanies == 1
MaxCompanyPayments == 2
MaxJobs == 2
MaxCandidates == 2
MaxCandidatePayments == 2
MaxInterviews == 2
MaxIncomes == 2
MaxIncomePayments == 2
MaxAmount == 2
MaxDate == 2
MaxVacancies == 2
MaxNow == 2
MaxTxns == 2

Amounts == 1..MaxAmount
Dates == 1..MaxDate

\* None for an optional integer or date (every real amount and date is >= 1)
None == 0
\* an optional number that may be 0, left out
Unset == -1
OptAmounts == {None} \cup Amounts
OptDates == {None} \cup Dates
\* an optional boolean of a request body
OptBools == {"None", "True", "False"}

Max(a, b) == IF a >= b THEN a ELSE b

---------------------------------------------------------------------------
(* Enumerations *)

JobStatus == {"OPEN", "FULFILLED", "DROPPED"}
CandidateStatus == {"REGISTERED", "COURSE", "FREE"}
CandidateEmploymentStatus == {"EMPLOYED", "UNEMPLOYED"}
InterviewStatus == {"SCHEDULED", "REJECTED_BY_EMPLOYER", "REJECTED_BY_CANDIDATE",
                    "ON_HOLD", "JOINED"}

---------------------------------------------------------------------------
(* Rows *)

Exists(table, id) == id \in 1..Len(table)

\* session.get(...) followed by "if not row", a soft-deleted row found
Active_deleted_found(table, id) == Exists(table, id)

\* session.get(...) followed by "if not row or not row.is_active"
Active(table, id) == Exists(table, id) /\ table[id].is_active

\* The session flushes pending changes before running a query
autoflush == TRUE

RECURSIVE SumOver(_, _)
SumOver(rows, ids) ==
    IF ids = {} THEN 0
    ELSE LET i == CHOOSE x \in ids : TRUE
         IN rows[i].amount + SumOver(rows, ids \ {i})

\* the response of a request
Response(op, code, ret) == [op |-> op, code |-> code, ret |-> ret]

\* the ledger query that leaves every filter out
Unfiltered ==
    [source |-> {}, start_date |-> None, end_date |-> None, company_id |-> None,
     candidate_id |-> None, job_id |-> None, min_amount |-> Unset,
     max_amount |-> Unset, include_inactive |-> FALSE]

\* no page of the ledger was asked for since the last request
NoPages == [query |-> Unfiltered, limit |-> 0, got |-> <<>>]

\* no report in the response
NoReply == [op |-> "none"]

Respond(op, code, ret) ==
    /\ last' = Response(op, code, ret)
    /\ pages' = NoPages
    /\ reply' = NoReply
    /\ UNCHANGED txns

\* no transaction in flight in a slot of `txns'
Idle == [pc |-> "idle"]

\* a request that raises: the transaction is rolled back
Reject(op, code) ==
    /\ Respond(op, code, None)
    /\ UNCHANGED dbvars
    /\ UNCHANGED now

Init ==
    /\ companies = <<>>
    /\ company_payments = <<>>
    /\ jobs = <<>>
    /\ candidates = <<>>
    /\ course_structure_fees = <<>>
    /\ candidate_payments = <<>>
    /\ interviews = <<>>
    /\ joined_candidates = <<>>
    /\ placement_incomes = <<>>
    /\ placement_income_payments = <<>>
    /\ now = 1
    /\ last = Response("init", 0, 0)
    /\ pages = NoPages
    /\ reply = NoReply
    /\ txns = [t \in 1..MaxTxns |-> Idle]

\* the clock advances between requests
Tick ==
    /\ now < MaxNow
    /\ now' = now + 1
    /\ UNCHANGED <<dbvars, last, pages, txns, reply>>

---------------------------------------------------------------------------
(* Companies and company payments *)

\* CompanyPaymentCreate: amount > 0, payment_date
CompanyPaymentBodies == [amount : Amounts, payment_date : Dates]

NewCompanyPayment(company_id, body) ==
    [exists |-> TRUE, company_id |-> company_id, amount |-> body.amount,
     payment_date |-> body.payment_date, created_at |-> now]

RECURSIVE NewCompanyPayments(_, _)
NewCompanyPayments(company_id, bodies) ==
    IF bodies = <<>> THEN <<>>
    ELSE <<NewCompanyPayment(company_id, Head(bodies))>>
         \o NewCompanyPayments(company_id, Tail(bodies))

\* POST /companies: the company and its payments are inserted in one transaction
create_company(payments) ==
    /\ Len(companies) < MaxCompanies
    /\ Len(company_payments) + Len(payments) <= MaxCompanyPayments
    /\ companies' = Append(companies, [is_active |-> TRUE])
    /\ company_payments' =
           company_payments \o NewCompanyPayments(Len(companies) + 1, payments)
    /\ Respond("create_company", 200, 0)
    /\ UNCHANGED <<jobs, candidates, course_structure_fees, candidate_payments,
                   interviews, joined_candidates, placement_incomes,
                   placement_income_payments, now>>

\* DELETE /companies/{company_id}
delete_company(company_id) ==
    IF ~Active(companies, company_id)
    THEN Reject("delete_company", 404)
    ELSE /\ companies' = [companies EXCEPT ![company_id].is_active = FALSE]
         /\ Respond("delete_company", 200, 0)
         /\ UNCHANGED <<company_payments, jobs, candidates, course_structure_fees,
                        candidate_payments, interviews, joined_candidates,
                        placement_incomes, placement_income_payments, now>>

\* POST /companies/{company_id}/payments
create_company_payment(company_id, body) ==
    /\ Len(company_payments) < MaxCompanyPayments
    /\ IF ~Active(companies, company_id)
       THEN Reject("create_company_payment", 404)
       ELSE /\ company_payments' =
                   Append(company_payments, NewCompanyPayment(company_id, body))
            /\ Respond("create_company_payment", 200, Len(company_payments) + 1)
            /\ UNCHANGED <<companies, jobs, candidates, course_structure_fees,
                           candidate_payments, interviews, joined_candidates,
                           placement_incomes, placement_income_payments, now>>

\* session.get(CompanyPayment, id): a deleted row is gone
CompanyPaymentFound(payment_id) ==
    Exists(company_payments, payment_id) /\ company_payments[payment_id].exists

\* PUT /payments/{payment_id}
update_payment(payment_id, body) ==
    IF ~CompanyPaymentFound(payment_id)
    THEN Reject("update_payment", 404)
    ELSE /\ company_payments' =
                [company_payments EXCEPT ![payment_id].amount = body.amount,
                                         ![payment_id].payment_date = body.payment_date]
         /\ Respond("update_payment", 200, 0)
         /\ UNCHANGED <<companies, jobs, candidates, course_structure_fees,
                        candidate_payments, interviews, joined_candidates,
                        placement_incomes, placement_income_payments, now>>

\* DELETE /payments/{payment_id}: a hard delete
delete_payment(payment_id) ==
    IF ~CompanyPaymentFound(payment_id)
    THEN Reject("delete_payment", 404)
    ELSE /\ company_payments' = [company_payments EXCEPT ![payment_id].exists = FALSE]
         /\ Respond("delete_payment", 200, 0)
         /\ UNCHANGED <<companies, jobs, candidates, course_structure_fees,
                        candidate_payments, interviews, joined_candidates,
                        placement_incomes, placement_income_payments, now>>

---------------------------------------------------------------------------
(* Jobs *)

\* JobCreate: num_vacancies >= 1, any status
JobCreateBodies ==
    [company_id : 1..MaxCompanies, num_vacancies : 1..MaxVacancies, status : JobStatus]

\* POST /jobs: the foreign key rejects an unknown company (IntegrityError -> 409)
create_job(body) ==
    /\ Len(jobs) < MaxJobs
    /\ IF ~Exists(companies, body.company_id)
       THEN Reject("create_job", 409)
       ELSE /\ jobs' = Append(jobs, [company_id |-> body.company_id,
                                     num_vacancies |-> body.num_vacancies,
                                     status |-> body.status,
                                     is_active |-> TRUE])
            /\ Respond("create_job", 200, 0)
            /\ UNCHANGED <<companies, company_payments, candidates,
                           course_structure_fees, candidate_payments, interviews,
                           joined_candidates, placement_incomes,
                           placement_income_payments, now>>

\* JobUpdate: num_vacancies >= 0, status and is_active, each optional
JobUpdateBodies ==
    [num_vacancies : {Unset} \cup (0..MaxVacancies),
     status : {"None"} \cup JobStatus,
     is_active : OptBools]

\* PUT /jobs/{job_id}
update_job(job_id, body) ==
    IF ~Active(jobs, job_id)
    THEN Reject("update_job", 404)
    ELSE LET job == jobs[job_id]
             updated == [job EXCEPT
                 !.num_vacancies = IF body.num_vacancies = Unset THEN @
                                   ELSE body.num_vacancies,
                 !.is_active = IF body.is_active = "None" THEN @
                               ELSE body.is_active = "True",
                 !.status = IF body.status = "None" THEN @ ELSE body.status]
         IN /\ jobs' = [jobs EXCEPT ![job_id] = updated]
            /\ Respond("update_job", 200, 0)
            /\ UNCHANGED <<companies, company_payments, candidates,
                           course_structure_fees, candidate_payments, interviews,
                           joined_candidates, placement_incomes,
                           placement_income_payments, now>>

\* PATCH /jobs/{job_id}/status
update_job_status(job_id, status) ==
    IF ~Active(jobs, job_id)
    THEN Reject("update_job_status", 404)
    ELSE /\ jobs' = [jobs EXCEPT ![job_id].status = status]
         /\ Respond("update_job_status", 200, 0)
         /\ UNCHANGED <<companies, company_payments, candidates,
                        course_structure_fees, candidate_payments, interviews,
                        joined_candidates, placement_incomes,
                        placement_income_payments, now>>

---------------------------------------------------------------------------
(* Candidates, course fee structures and candidate payments *)

\* CourseStructureFeeCreate (total_fee >= 0) and CandidatePaymentCreate
\* (amount > 0) as optional parts of a candidate request body
NoFeeBody == [given |-> FALSE, total_fee |-> 0, due_date |-> None]
FeeBodies ==
    {NoFeeBody} \cup [given : {TRUE}, total_fee : 0..MaxAmount, due_date : OptDates]
NoPaymentBody == [given |-> FALSE, amount |-> 0, payment_date |-> None]
CandidatePaymentBodies == [given : {TRUE}, amount : Amounts, payment_date : Dates]
OptPaymentBodies == {NoPaymentBody} \cup CandidatePaymentBodies

\* candidate.fee_structure: the candidate's fee row, 0 when there is none
fee_structure(candidate_id) ==
    IF \E f \in 1..Len(course_structure_fees) :
           course_structure_fees[f].candidate_id = candidate_id
    THEN CHOOSE f \in 1..Len(course_structure_fees) :
           course_structure_fees[f].candidate_id = candidate_id
    ELSE 0

NewCandidatePayment(candidate_id, body) ==
    [candidate_id |-> candidate_id, amount |-> body.amount,
     payment_date |-> body.payment_date, created_at |-> now, is_active |-> TRUE]

NewFee(candidate_id, total_fee, balance, due_date) ==
    [candidate_id |-> candidate_id, total_fee |-> total_fee, balance |-> balance,
     due_date |-> due_date, is_active |-> TRUE]

WithPayment(candidate_id, body) ==
    IF body.given
    THEN Append(candidate_payments, NewCandidatePayment(candidate_id, body))
    ELSE candidate_payments

\* room in the payment table for the payment of a request body
RoomForPayment(body) ==
    body.given => Len(candidate_payments) < MaxCandidatePayments

\* CandidateCreate._validate_flow without the check of initial_payment for FREE
CandidateCreate_validate_flow_payment_for_free(body) ==
    /\ body.status = "FREE" => ~body.fee_structure.given
    /\ body.status = "REGISTERED" =>
           body.initial_payment.given /\ ~body.fee_structure.given
    /\ body.status = "COURSE" =>
           body.fee_structure.given /\ body.initial_payment.given

\* CandidateCreate._validate_flow
CandidateCreate_validate_flow(body) ==
    /\ body.status = "FREE" =>
           ~body.fee_structure.given /\ ~body.initial_payment.given
    /\ body.status = "REGISTERED" =>
           body.initial_payment.given /\ ~body.fee_structure.given
    /\ body.status = "COURSE" =>
           body.fee_structure.given /\ body.initial_payment.given

CandidateCreateBodies ==
    [status : CandidateStatus, fee_structure : FeeBodies,
     initial_payment : OptPaymentBodies]

\* POST /candidates
create_candidate(body) ==
    /\ Len(candidates) < MaxCandidates
    /\ RoomForPayment(body.initial_payment)
    /\ IF ~CandidateCreate_validate_flow(body)
       THEN Reject("create_candidate", 422)
       ELSE LET id == Len(candidates) + 1
                fee_payload == IF body.status = "COURSE" THEN body.fee_structure
                               ELSE NoFeeBody
                pay_payload == IF body.status \in {"REGISTERED", "COURSE"}
                               THEN body.initial_payment ELSE NoPaymentBody
                balance == IF pay_payload.given
                           THEN Max(fee_payload.total_fee - pay_payload.amount, 0)
                           ELSE fee_payload.total_fee
            IN IF (body.status = "COURSE" /\ ~fee_payload.given)
                  \/ (body.status \in {"REGISTERED", "COURSE"} /\ ~pay_payload.given)
               THEN Reject("create_candidate", 400)
               ELSE /\ candidates' = Append(candidates,
                           [status |-> body.status,
                            employment_status |-> "UNEMPLOYED",
                            is_active |-> TRUE])
                    /\ course_structure_fees' =
                           IF fee_payload.given
                           THEN Append(course_structure_fees,
                                       NewFee(id, fee_payload.total_fee, balance,
                                              fee_payload.due_date))
                           ELSE course_structure_fees
                    /\ candidate_payments' = WithPayment(id, pay_payload)
                    /\ Respond("create_candidate", 200, 0)
                    /\ UNCHANGED <<companies, company_payments, jobs, interviews,
                                   joined_candidates, placement_incomes,
                                   placement_income_payments, now>>

CandidateUpdateBodies ==
    [status : {"None"} \cup CandidateStatus, is_active : OptBools,
     fee_structure : FeeBodies, initial_payment : OptPaymentBodies]

\* PUT /candidates/{candidate_id}
update_candidate(candidate_id, body) ==
    /\ RoomForPayment(body.initial_payment)
    /\ IF ~Active(candidates, candidate_id)
       THEN Reject("update_candidate", 404)
       ELSE LET candidate == candidates[candidate_id]
                updated == [candidate EXCEPT
                    !.status = IF body.status = "None" THEN @ ELSE body.status,
                    !.is_active = IF body.is_active = "None" THEN @
                                  ELSE body.is_active = "True"]
                effective_status == updated.status
                fee == fee_structure(candidate_id)
            IN IF effective_status = "FREE"
                  /\ (body.fee_structure.given \/ body.initial_payment.given)
               THEN Reject("update_candidate", 400)
               ELSE IF effective_status = "REGISTERED" /\ body.fee_structure.given
               THEN Reject("update_candidate", 400)
               ELSE IF effective_status = "COURSE" /\ body.fee_structure.given
                       /\ fee # 0 /\ ~body.initial_payment.given
               \* body.initial_payment.amount on None: AttributeError
               THEN Reject("update_candidate", 500)
               ELSE /\ candidates' = [candidates EXCEPT ![candidate_id] = updated]
                    /\ course_structure_fees' =
                           IF effective_status = "COURSE" /\ body.fee_structure.given
                           THEN IF fee = 0
                                THEN Append(course_structure_fees,
                                            NewFee(candidate_id,
                                                   body.fee_structure.total_fee,
                                                   body.fee_structure.total_fee,
                                                   body.fee_structure.due_date))
                                ELSE [course_structure_fees EXCEPT
                                         ![fee].total_fee = body.fee_structure.total_fee,
                                         ![fee].due_date = body.fee_structure.due_date,
                                         ![fee].balance = body.fee_structure.total_fee
                                                          - body.initial_payment.amount]
                           ELSE course_structure_fees
                    /\ candidate_payments' =
                           IF effective_status \in {"REGISTERED", "COURSE"}
                           THEN WithPayment(candidate_id, body.initial_payment)
                           ELSE candidate_payments
                    /\ Respond("update_candidate", 200, 0)
                    /\ UNCHANGED <<companies, company_payments, jobs, interviews,
                                   joined_candidates, placement_incomes,
                                   placement_income_payments, now>>

CandidateStatusChangeBodies ==
    [status : CandidateStatus, fee_structure : FeeBodies,
     initial_payment : OptPaymentBodies]

\* PUT /candidates/{candidate_id}/status
update_candidate_status(candidate_id, body) ==
    /\ RoomForPayment(body.initial_payment)
    /\ IF ~Active(candidates, candidate_id)
       THEN Reject("update_candidate_status", 404)
       ELSE LET fee == fee_structure(candidate_id)
                initial_payment_amount ==
                    IF body.initial_payment.given THEN body.initial_payment.amount
                    ELSE 0
            IN IF body.status = "FREE"
                  /\ (body.fee_structure.given \/ body.initial_payment.given)
               THEN Reject("update_candidate_status", 400)
               ELSE IF body.status = "REGISTERED" /\ body.fee_structure.given
               THEN Reject("update_candidate_status", 400)
               ELSE /\ candidates' =
                           [candidates EXCEPT ![candidate_id].status = body.status]
                    /\ course_structure_fees' =
                           IF body.status = "COURSE" /\ body.fee_structure.given
                           THEN IF fee = 0
                                THEN Append(course_structure_fees,
                                            NewFee(candidate_id,
                                                   body.fee_structure.total_fee,
                                                   Max(body.fee_structure.total_fee
                                                       - initial_payment_amount, 0),
                                                   body.fee_structure.due_date))
                                ELSE [course_structure_fees EXCEPT
                                         ![fee].total_fee = body.fee_structure.total_fee,
                                         ![fee].due_date = body.fee_structure.due_date,
                                         ![fee].balance =
                                             IF body.initial_payment.given
                                             THEN Max(body.fee_structure.total_fee
                                                      - body.initial_payment.amount, 0)
                                             ELSE body.fee_structure.total_fee]
                           ELSE course_structure_fees
                    /\ candidate_payments' =
                           IF body.status \in {"REGISTERED", "COURSE"}
                           THEN WithPayment(candidate_id, body.initial_payment)
                           ELSE candidate_payments
                    /\ Respond("update_candidate_status", 200, 0)
                    /\ UNCHANGED <<companies, company_payments, jobs, interviews,
                                   joined_candidates, placement_incomes,
                                   placement_income_payments, now>>

---------------------------------------------------------------------------
(* Candidate payment endpoints *)

\* CandidateStatus.<name>: looking up a name the enum does not define raises
\* AttributeError
HasMember(enum, name) == name \in enum

ActivePaymentsOf(candidate_id, payments) ==
    {p \in 1..Len(payments) :
        payments[p].candidate_id = candidate_id /\ payments[p].is_active}

\* _recompute_joc_fee_balance: [raised, fees]; `payments' are the rows the
\* sum query sees
_recompute_joc_fee_balance(candidate_id, payments) ==
    LET fee == fee_structure(candidate_id)
        total_paid == SumOver(payments, ActivePaymentsOf(candidate_id, payments))
    IN IF ~HasMember(CandidateStatus, "JOC")
       THEN [raised |-> TRUE, fees |-> course_structure_fees]
       ELSE IF candidates[candidate_id].status # "JOC"
       THEN [raised |-> FALSE, fees |-> course_structure_fees]
       ELSE IF fee = 0 \/ ~course_structure_fees[fee].is_active
       THEN [raised |-> FALSE, fees |-> course_structure_fees]
       ELSE [raised |-> FALSE,
             fees |-> [course_structure_fees EXCEPT
                          ![fee].balance = course_structure_fees[fee].total_fee
                                           - total_paid]]

\* POST /candidates/{candidate_id}/payments
create_candidate_payment(candidate_id, body) ==
    /\ Len(candidate_payments) < MaxCandidatePayments
    /\ IF ~Active(candidates, candidate_id)
       THEN Reject("create_candidate_payment", 404)
       ELSE LET cand_status == candidates[candidate_id].status
                fee == fee_structure(candidate_id)
                added == Append(candidate_payments,
                                NewCandidatePayment(candidate_id, body))
                recomputed == _recompute_joc_fee_balance(candidate_id, added)
            IN IF ~HasMember(CandidateStatus, "CAPS")
               THEN Reject("create_candidate_payment", 500)
               ELSE IF cand_status \in {"CAPS", "FREE"}
               THEN Reject("create_candidate_payment", 400)
               ELSE IF ~HasMember(CandidateStatus, "JOC")
               THEN Reject("create_candidate_payment", 500)
               ELSE IF cand_status = "JOC"
                       /\ (fee = 0 \/ ~course_structure_fees[fee].is_active)
               THEN Reject("create_candidate_payment", 400)
               ELSE IF recomputed.raised
               THEN Reject("create_candidate_payment", 500)
               ELSE /\ candidate_payments' = added
                    /\ course_structure_fees' = recomputed.fees
                    /\ Respond("create_candidate_payment", 200, Len(added))
                    /\ UNCHANGED <<companies, company_payments, jobs, candidates,
                                   interviews, joined_candidates, placement_incomes,
                                   placement_income_payments, now>>

\* the rows a query of the handler sees after it changed `old' into `new'
Visible(old, new) == IF autoflush THEN new ELSE old

\* PUT /candidate-payments/{payment_id}
update_candidate_payment(payment_id, body) ==
    IF ~Active(candidate_payments, payment_id)
    THEN Reject("update_candidate_payment", 404)
    ELSE IF ~Active(candidates, candidate_payments[payment_id].candidate_id)
    THEN Reject("update_candidate_payment", 404)
    ELSE LET candidate_id == candidate_payments[payment_id].candidate_id
             updated == [candidate_payments EXCEPT
                            ![payment_id].amount = body.amount,
                            ![payment_id].payment_date = body.payment_date]
             recomputed == _recompute_joc_fee_balance(candidate_id,
                               Visible(candidate_payments, updated))
         IN IF recomputed.raised
            THEN Reject("update_candidate_payment", 500)
            ELSE /\ candidate_payments' = updated
                 /\ course_structure_fees' = recomputed.fees
                 /\ Respond("update_candidate_payment", 200, 0)
                 /\ UNCHANGED <<companies, company_payments, jobs, candidates,
                                interviews, joined_candidates, placement_incomes,
                                placement_income_payments, now>>

\* DELETE /candidate-payments/{payment_id}
delete_candidate_payment(payment_id) ==
    IF ~Active(candidate_payments, payment_id)
    THEN Reject("delete_candidate_payment", 404)
    ELSE IF ~Active(candidates, candidate_payments[payment_id].candidate_id)
    THEN Reject("delete_candidate_payment", 404)
    ELSE LET candidate_id == candidate_payments[payment_id].candidate_id
             updated == [candidate_payments EXCEPT ![payment_id].is_active = FALSE]
             recomputed == _recompute_joc_fee_balance(candidate_id,
                               Visible(candidate_payments, updated))
         IN IF recomputed.raised
            THEN Reject("delete_candidate_payment", 500)
            ELSE /\ candidate_payments' = updated
                 /\ course_structure_fees' = recomputed.fees
                 /\ Respond("delete_candidate_payment", 200, 0)
                 /\ UNCHANGED <<companies, company_payments, jobs, candidates,
                                interviews, joined_candidates, placement_incomes,
                                placement_income_payments, now>>

---------------------------------------------------------------------------
(* Interviews *)

\* the ids a request can name: every row and one id that matches no row
Ids(table) == 1..(Len(table) + 1)

InterviewCreateBodies ==
    [company_id : 1..MaxCompanies, job_id : 1..MaxJobs,
     candidate_id : 1..MaxCandidates, status : InterviewStatus]

\* POST /interviews
create_interview(body) ==
    /\ Len(interviews) < MaxInterviews
    /\ IF ~Active(companies, body.company_id)
          \/ ~Active(jobs, body.job_id)
          \/ ~Active(candidates, body.candidate_id)
       THEN Reject("create_interview", 404)
       ELSE /\ interviews' = Append(interviews,
                   [company_id |-> body.company_id, job_id |-> body.job_id,
                    candidate_id |-> body.candidate_id, status |-> body.status,
                    is_active |-> TRUE])
            /\ Respond("create_interview", 200, 0)
            /\ UNCHANGED <<companies, company_payments, jobs, candidates,
                           course_structure_fees, candidate_payments,
                           joined_candidates, placement_incomes,
                           placement_income_payments, now>>

\* InterviewUpdate: a field that is None is left alone
InterviewUpdateBodies ==
    [job_id : 0..MaxJobs, candidate_id : 0..MaxCandidates,
     status : {"None"} \cup InterviewStatus, is_active : OptBools]

\* PUT /interviews/{interview_id}; the foreign keys reject an unknown job or
\* candidate (IntegrityError -> 500)
update_interview(interview_id, body) ==
    IF ~Active(interviews, interview_id)
    THEN Reject("update_interview", 404)
    ELSE IF (body.job_id # None /\ ~Exists(jobs, body.job_id))
            \/ (body.candidate_id # None /\ ~Exists(candidates, body.candidate_id))
    THEN Reject("update_interview", 500)
    ELSE LET interview == interviews[interview_id]
             updated == [interview EXCEPT
                 !.job_id = IF body.job_id = None THEN @ ELSE body.job_id,
                 !.candidate_id = IF body.candidate_id = None THEN @
                                  ELSE body.candidate_id,
                 !.status = IF body.status = "None" THEN @ ELSE body.status,
                 !.is_active = IF body.is_active = "None" THEN @
                               ELSE body.is_active = "True"]
         IN /\ interviews' = [interviews EXCEPT ![interview_id] = updated]
            /\ Respond("update_interview", 200, 0)
            /\ UNCHANGED <<companies, company_payments, jobs, candidates,
                           course_structure_fees, candidate_payments,
                           joined_candidates, placement_incomes,
                           placement_income_payments, now>>

\* DELETE /interviews/{interview_id}
delete_interview(interview_id) ==
    IF ~Active(interviews, interview_id)
    THEN Reject("delete_interview", 404)
    ELSE /\ interviews' = [interviews EXCEPT ![interview_id].is_active = FALSE]
         /\ Respond("delete_interview", 200, 0)
         /\ UNCHANGED <<companies, company_payments, jobs, candidates,
                        course_structure_fees, candidate_payments,
                        joined_candidates, placement_incomes,
                        placement_income_payments, now>>

\* InterviewStatusUpdate: salary > 0 and placement_total_receivable > 0 when given
InterviewStatusUpdateBodies ==
    [status : InterviewStatus, doj : OptDates, salary : {None, 1},
     placement_total_receivable : OptAmounts, placement_due_date : OptDates]

\* the active Joined_candidates rows of a (job, candidate) pair
ActiveJoined(job_id, candidate_id) ==
    {r \in 1..Len(joined_candidates) :
        /\ joined_candidates[r].is_active
        /\ joined_candidates[r].job_id = job_id
        /\ joined_candidates[r].candidate_id = candidate_id}

\* the lookup of the interview's income left out: nothing is ever found
ActiveIncomes_not_looked_up(interview_id) == {}

\* the active PlacementIncome rows of an interview
ActiveIncomes(interview_id) ==
    {p \in 1..Len(placement_incomes) :
        /\ placement_incomes[p].is_active
        /\ placement_incomes[p].interview_id = interview_id}

\* the validations without the vacancy check
JoinedValidation_no_vacancy_check(interview_id, body) ==
    LET interview == interviews[interview_id]
        candidate == candidates[interview.candidate_id]
    IN IF body.doj = None \/ body.salary = None THEN 400
       ELSE IF body.placement_total_receivable = None THEN 400
       ELSE IF candidate.employment_status = "EMPLOYED" THEN 409
       ELSE IF ActiveJoined(interview.job_id, interview.candidate_id) # {} THEN 409
       ELSE 200

\* the validations without the two conflict checks
JoinedValidation_no_conflict(interview_id, body) ==
    LET job == jobs[interviews[interview_id].job_id]
    IN IF body.doj = None \/ body.salary = None THEN 400
       ELSE IF body.placement_total_receivable = None THEN 400
       ELSE IF job.num_vacancies <= 0 THEN 400
       ELSE 200

\* the validations without the EMPLOYED check
JoinedValidation_no_employed_check(interview_id, body) ==
    LET interview == interviews[interview_id]
        job == jobs[interview.job_id]
    IN IF body.doj = None \/ body.salary = None THEN 400
       ELSE IF body.placement_total_receivable = None THEN 400
       ELSE IF job.num_vacancies <= 0 THEN 400
       ELSE IF ActiveJoined(interview.job_id, interview.candidate_id) # {} THEN 409
       ELSE 200

\* the validations with the vacancy check ahead of the EMPLOYED check
JoinedValidation_vacancy_first(interview_id, body) ==
    LET interview == interviews[interview_id]
        job == jobs[interview.job_id]
        candidate == candidates[interview.candidate_id]
    IN IF body.doj = None \/ body.salary = None THEN 400
       ELSE IF body.placement_total_receivable = None THEN 400
       ELSE IF job.num_vacancies <= 0 THEN 400
       ELSE IF candidate.employment_status = "EMPLOYED" THEN 409
       ELSE IF ActiveJoined(interview.job_id, interview.candidate_id) # {} THEN 409
       ELSE 200

\* the status code of the JOINED validations, 200 when all of them pass
JoinedValidation(interview_id, body) ==
    LET interview == interviews[interview_id]
        job == jobs[interview.job_id]
        candidate == candidates[interview.candidate_id]
    IN IF body.doj = None \/ body.salary = None THEN 400
       ELSE IF body.placement_total_receivable = None THEN 400
       ELSE IF candidate.employment_status = "EMPLOYED" THEN 409
       ELSE IF job.num_vacancies <= 0 THEN 400
       ELSE IF ActiveJoined(interview.job_id, interview.candidate_id) # {} THEN 409
       ELSE 200

\* the job left with all its vacancies
JoinedJob_vacancy_kept(job) ==
    [job EXCEPT !.status = IF job.num_vacancies = 0 THEN "FULFILLED" ELSE @]

\* the vacancy taken, the status of the job left alone
JoinedJob_status_kept(job) ==
    [job EXCEPT !.num_vacancies = Max(0, job.num_vacancies - 1)]

\* the JOINED effects on the job row
JoinedJob(job) ==
    LET num_vacancies == Max(0, job.num_vacancies - 1)
    IN [job EXCEPT !.num_vacancies = num_vacancies,
                   !.status = IF num_vacancies = 0 THEN "FULFILLED" ELSE @]

\* the PlacementIncome a JOINED transition opens
JoinedIncome(interview_id, body) ==
    [interview_id |-> interview_id,
     candidate_id |-> interviews[interview_id].candidate_id,
     job_id |-> interviews[interview_id].job_id,
     total_receivable |-> body.placement_total_receivable,
     total_received |-> 0,
     balance |-> body.placement_total_receivable,
     due_date |-> IF body.placement_due_date # None THEN body.placement_due_date
                  ELSE body.doj,
     is_active |-> TRUE]

\* the handler taking a vacancy on every transition
update_interview_status_vacancy_taken(interview_id, body) ==
    IF ~Active(interviews, interview_id)
    THEN Reject("update_interview_status", 404)
    ELSE IF ~Active(jobs, interviews[interview_id].job_id)
            \/ ~Active(candidates, interviews[interview_id].candidate_id)
    THEN Reject("update_interview_status", 404)
    ELSE LET interview == interviews[interview_id]
             code == JoinedValidation(interview_id, body)
             existing == ActiveIncomes(interview_id)
         IN IF body.status # "JOINED"
            THEN /\ interviews' = [interviews EXCEPT ![interview_id].status = body.status]
                 /\ Respond("update_interview_status", 200, 0)
                 /\ jobs' = [jobs EXCEPT ![interview.job_id] = JoinedJob(@)]
                 /\ UNCHANGED <<companies, company_payments, candidates,
                                course_structure_fees, candidate_payments,
                                joined_candidates, placement_incomes,
                                placement_income_payments, now>>
            ELSE IF code # 200
            THEN Reject("update_interview_status", code)
            ELSE /\ joined_candidates' = Append(joined_candidates,
                        [job_id |-> interview.job_id,
                         candidate_id |-> interview.candidate_id,
                         Date_of_joining |-> body.doj, salary |-> body.salary,
                         is_active |-> TRUE])
                 /\ IF existing = {}
                    THEN /\ placement_incomes' =
                                Append(placement_incomes,
                                       JoinedIncome(interview_id, body))
                         /\ Respond("update_interview_status", 200, Len(placement_incomes) + 1)
                    \* .first() of an unordered query: any of the active rows
                    ELSE /\ UNCHANGED placement_incomes
                         /\ \E income_id \in existing :
                                Respond("update_interview_status", 200, income_id)
                 /\ jobs' = [jobs EXCEPT ![interview.job_id] = JoinedJob(@)]
                 /\ candidates' = [candidates EXCEPT
                        ![interview.candidate_id].employment_status = "EMPLOYED"]
                 /\ interviews' = [interviews EXCEPT ![interview_id].status = "JOINED"]
                 /\ UNCHANGED <<companies, company_payments, course_structure_fees,
                                candidate_payments, placement_income_payments, now>>

\* PATCH /interviews/{interview_id}/status
update_interview_status(interview_id, body) ==
    IF ~Active(interviews, interview_id)
    THEN Reject("update_interview_status", 404)
    ELSE IF ~Active(jobs, interviews[interview_id].job_id)
            \/ ~Active(candidates, interviews[interview_id].candidate_id)
    THEN Reject("update_interview_status", 404)
    ELSE LET interview == interviews[interview_id]
             code == JoinedValidation(interview_id, body)
             existing == ActiveIncomes(interview_id)
         IN IF body.status # "JOINED"
            THEN /\ interviews' = [interviews EXCEPT ![interview_id].status = body.status]
                 /\ Respond("update_interview_status", 200, 0)
                 /\ UNCHANGED <<companies, company_payments, jobs, candidates,
                                course_structure_fees, candidate_payments,
                                joined_candidates, placement_incomes,
                                placement_income_payments, now>>
            ELSE IF code # 200
            THEN Reject("update_interview_status", code)
            ELSE /\ joined_candidates' = Append(joined_candidates,
                        [job_id |-> interview.job_id,
                         candidate_id |-> interview.candidate_id,
                         Date_of_joining |-> body.doj, salary |-> body.salary,
                         is_active |-> TRUE])
                 /\ IF existing = {}
                    THEN /\ placement_incomes' =
                                Append(placement_incomes,
                                       JoinedIncome(interview_id, body))
                         /\ Respond("update_interview_status", 200, Len(placement_incomes) + 1)
                    \* .first() of an unordered query: any of the active rows
                    ELSE /\ UNCHANGED placement_incomes
                         /\ \E income_id \in existing :
                                Respond("update_interview_status", 200, income_id)
                 /\ jobs' = [jobs EXCEPT ![interview.job_id] = JoinedJob(@)]
                 /\ candidates' = [candidates EXCEPT
                        ![interview.candidate_id].employment_status = "EMPLOYED"]
                 /\ interviews' = [interviews EXCEPT ![interview_id].status = "JOINED"]
                 /\ UNCHANGED <<companies, company_payments, course_structure_fees,
                                candidate_payments, placement_income_payments, now>>

---------------------------------------------------------------------------
(* Placement incomes and their payments *)

ActiveIncomePaymentsOf(income_id, payments) ==
    {p \in 1..Len(payments) :
        payments[p].placement_income_id = income_id /\ payments[p].is_active}

\* the recomputation without the is_active filter of the sum
_recompute_placement_income_totals_all_rows(income, income_id, payments) ==
    LET total_received ==
            SumOver(payments, {p \in 1..Len(payments) :
                                  payments[p].placement_income_id = income_id})
    IN [income EXCEPT !.total_received = total_received,
                      !.balance = Max(0, income.total_receivable - total_received)]

\* _recompute_placement_income_totals; `payments' are the rows the sum query sees
_recompute_placement_income_totals(income, income_id, payments) ==
    LET total_received ==
            SumOver(payments, ActiveIncomePaymentsOf(income_id, payments))
    IN [income EXCEPT !.total_received = total_received,
                      !.balance = Max(0, income.total_receivable - total_received)]

\* PlacementIncomeCreate: total_receivable > 0
PlacementIncomeCreateBodies ==
    [interview_id : 1..MaxInterviews, candidate_id : 1..MaxCandidates,
     job_id : 1..MaxJobs, total_receivable : Amounts, due_date : Dates]

\* POST /placement-incomes
create_placement_income(body) ==
    /\ Len(placement_incomes) < MaxIncomes
    /\ IF ~Active(interviews, body.interview_id)
          \/ ~Active(jobs, body.job_id)
          \/ ~Active(candidates, body.candidate_id)
       THEN Reject("create_placement_income", 404)
       ELSE IF interviews[body.interview_id].job_id # body.job_id
               \/ interviews[body.interview_id].candidate_id # body.candidate_id
       THEN Reject("create_placement_income", 400)
       ELSE /\ placement_incomes' = Append(placement_incomes,
                   [interview_id |-> body.interview_id,
                    candidate_id |-> body.candidate_id,
                    job_id |-> body.job_id,
                    total_receivable |-> body.total_receivable,
                    total_received |-> 0,
                    balance |-> body.total_receivable,
                    due_date |-> body.due_date,
                    is_active |-> TRUE])
            /\ Respond("create_placement_income", 200, 0)
            /\ UNCHANGED <<companies, company_payments, jobs, candidates,
                           course_structure_fees, candidate_payments, interviews,
                           joined_candidates, placement_income_payments, now>>

\* PlacementIncomeUpdate: every field optional
PlacementIncomeUpdateBodies ==
    [total_receivable : OptAmounts, due_date : OptDates, is_active : OptBools]

\* PUT /placement-incomes/{income_id}
update_placement_income(income_id, body) ==
    IF ~Active(placement_incomes, income_id)
    THEN Reject("update_placement_income", 404)
    ELSE LET income == placement_incomes[income_id]
             updated == [income EXCEPT
                 !.total_receivable = IF body.total_receivable = None THEN @
                                      ELSE body.total_receivable,
                 !.due_date = IF body.due_date = None THEN @ ELSE body.due_date,
                 !.is_active = IF body.is_active = "None" THEN @
                               ELSE body.is_active = "True"]
         IN IF ~Active(interviews, income.interview_id)
            THEN Reject("update_placement_income", 404)
            ELSE IF interviews[income.interview_id].job_id # income.job_id
                    \/ interviews[income.interview_id].candidate_id
                           # income.candidate_id
            THEN Reject("update_placement_income", 400)
            ELSE IF ~Active(jobs, income.job_id)
                    \/ ~Active(candidates, income.candidate_id)
            THEN Reject("update_placement_income", 404)
            ELSE /\ placement_incomes' = [placement_incomes EXCEPT ![income_id] =
                        _recompute_placement_income_totals(updated, income_id,
                            placement_income_payments)]
                 /\ Respond("update_placement_income", 200, 0)
                 /\ UNCHANGED <<companies, company_payments, jobs, candidates,
                                course_structure_fees, candidate_payments,
                                interviews, joined_candidates,
                                placement_income_payments, now>>

\* DELETE /placement-incomes/{income_id}
delete_placement_income(income_id) ==
    IF ~Active(placement_incomes, income_id)
    THEN Reject("delete_placement_income", 404)
    ELSE /\ placement_incomes' =
                [placement_incomes EXCEPT ![income_id].is_active = FALSE]
         /\ Respond("delete_placement_income", 200, 0)
         /\ UNCHANGED <<companies, company_payments, jobs, candidates,
                        course_structure_fees, candidate_payments, interviews,
                        joined_candidates, placement_income_payments, now>>

\* PlacementIncomePaymentCreate: amount > 0
PlacementIncomePaymentCreateBodies == [amount : Amounts, paid_date : Dates]

\* POST /placement-incomes/{income_id}/payments: the payment is flushed, then
\* the totals are recomputed
create_placement_income_payment(income_id, body) ==
    /\ Len(placement_income_payments) < MaxIncomePayments
    /\ IF ~Active(placement_incomes, income_id)
       THEN Reject("create_placement_income_payment", 404)
       ELSE LET added == Append(placement_income_payments,
                    [placement_income_id |-> income_id, amount |-> body.amount,
                     paid_date |-> body.paid_date, created_at |-> now,
                     is_active |-> TRUE])
            IN /\ placement_income_payments' = added
               /\ placement_incomes' = [placement_incomes EXCEPT ![income_id] =
                      _recompute_placement_income_totals(@, income_id, added)]
               /\ Respond("create_placement_income_payment", 200, Len(added))
               /\ UNCHANGED <<companies, company_payments, jobs, candidates,
                              course_structure_fees, candidate_payments,
                              interviews, joined_candidates, now>>

\* PlacementIncomePaymentUpdate: every field optional
PlacementIncomePaymentUpdateBodies ==
    [amount : OptAmounts, paid_date : OptDates, is_active : OptBools]

\* PUT /placement-incomes/payments/{payment_id}
update_placement_income_payment(payment_id, body) ==
    IF ~Active(placement_income_payments, payment_id)
    THEN Reject("update_placement_income_payment", 404)
    ELSE IF ~Active(placement_incomes,
                    placement_income_payments[payment_id].placement_income_id)
    THEN Reject("update_placement_income_payment", 404)
    ELSE LET payment == placement_income_payments[payment_id]
             income_id == payment.placement_income_id
             updated == [placement_income_payments EXCEPT ![payment_id] =
                 [payment EXCEPT
                     !.amount = IF body.amount = None THEN @ ELSE body.amount,
                     !.paid_date = IF body.paid_date = None THEN @
                                   ELSE body.paid_date,
                     !.is_active = IF body.is_active = "None" THEN @
                                   ELSE body.is_active = "True"]]
         IN /\ placement_income_payments' = updated
            /\ placement_incomes' = [placement_incomes EXCEPT ![income_id] =
                   _recompute_placement_income_totals(@, income_id,
                       Visible(placement_income_payments, updated))]
            /\ Respond("update_placement_income_payment", 200, 0)
            /\ UNCHANGED <<companies, company_payments, jobs, candidates,
                           course_structure_fees, candidate_payments, interviews,
                           joined_candidates, now>>

\* DELETE /placement-incomes/payments/{payment_id}
delete_placement_income_payment(payment_id) ==
    IF ~Active(placement_income_payments, payment_id)
    THEN Reject("delete_placement_income_payment", 404)
    ELSE IF ~Active(placement_incomes,
                    placement_income_payments[payment_id].placement_income_id)
    THEN Reject("delete_placement_income_payment", 404)
    ELSE LET income_id == placement_income_payments[payment_id].placement_income_id
             updated == [placement_income_payments EXCEPT
                            ![payment_id].is_active = FALSE]
         IN /\ placement_income_payments' = updated
            /\ placement_incomes' = [placement_incomes EXCEPT ![income_id] =
                   _recompute_placement_income_totals(@, income_id,
                       Visible(placement_income_payments, updated))]
            /\ Respond("delete_placement_income_payment", 200, 0)
            /\ UNCHANGED <<companies, company_payments, jobs, candidates,
                           course_structure_fees, candidate_payments, interviews,
                           joined_candidates, now>>

---------------------------------------------------------------------------
(* The payment ledger *)

LedgerSources == {"COMPANY_PAYMENT", "COURSE_FEE", "REGISTRATION_FEE", "PLACEMENT_INCOME"}

\* company_stmt: every company payment, joined to its company, is_active TRUE
CompanyLedgerRows ==
    {[source |-> "COMPANY_PAYMENT", id |-> p,
      payment_date |-> company_payments[p].payment_date,
      amount |-> company_payments[p].amount,
      created_at |-> company_payments[p].created_at,
      is_active |-> TRUE,
      company_id |-> company_payments[p].company_id,
      candidate_id |-> None, job_id |-> None,
      candidate_payment_type |-> "None"] :
        p \in {p \in 1..Len(company_payments) :
                  /\ company_payments[p].exists
                  /\ Exists(companies, company_payments[p].company_id)}}

\* candidate_stmt with every candidate payment labelled REGISTRATION_FEE
CandidateLedgerRows_never_relabelled ==
    {[source |-> "REGISTRATION_FEE",
      id |-> p,
      payment_date |-> candidate_payments[p].payment_date,
      amount |-> candidate_payments[p].amount,
      created_at |-> candidate_payments[p].created_at,
      is_active |-> candidate_payments[p].is_active,
      company_id |-> None,
      candidate_id |-> candidate_payments[p].candidate_id,
      job_id |-> None,
      candidate_payment_type |-> "REGISTRATION_FEE"] :
        p \in {p \in 1..Len(candidate_payments) :
                  Exists(candidates, candidate_payments[p].candidate_id)}}

\* candidate_stmt: every candidate payment, joined to its candidate
CandidateLedgerRows ==
    {[source |-> IF candidates[candidate_payments[p].candidate_id].status = "COURSE"
                 THEN "COURSE_FEE" ELSE "REGISTRATION_FEE",
      id |-> p,
      payment_date |-> candidate_payments[p].payment_date,
      amount |-> candidate_payments[p].amount,
      created_at |-> candidate_payments[p].created_at,
      is_active |-> candidate_payments[p].is_active,
      company_id |-> None,
      candidate_id |-> candidate_payments[p].candidate_id,
      job_id |-> None,
      candidate_payment_type |->
          IF candidates[candidate_payments[p].candidate_id].status = "COURSE"
          THEN "COURSE_FEE" ELSE "REGISTRATION_FEE"] :
        p \in {p \in 1..Len(candidate_payments) :
                  Exists(candidates, candidate_payments[p].candidate_id)}}

\* placement_stmt: every placement-income payment, joined to its income and to
\* the job, the company and the candidate of that income
PlacementLedgerRows ==
    {[source |-> "PLACEMENT_INCOME", id |-> p,
      payment_date |-> placement_income_payments[p].paid_date,
      amount |-> placement_income_payments[p].amount,
      created_at |-> placement_income_payments[p].created_at,
      is_active |-> placement_income_payments[p].is_active,
      company_id |->
          jobs[placement_incomes[
                   placement_income_payments[p].placement_income_id].job_id].company_id,
      candidate_id |->
          placement_incomes[
              placement_income_payments[p].placement_income_id].candidate_id,
      job_id |->
          placement_incomes[placement_income_payments[p].placement_income_id].job_id,
      candidate_payment_type |-> "None"] :
        p \in {p \in 1..Len(placement_income_payments) :
                  LET income_id == placement_income_payments[p].placement_income_id
                  IN /\ Exists(placement_incomes, income_id)
                     /\ Exists(jobs, placement_incomes[income_id].job_id)
                     /\ Exists(companies,
                               jobs[placement_incomes[income_id].job_id].company_id)
                     /\ Exists(candidates, placement_incomes[income_id].candidate_id)}}

\* union_all of the three statements
payment_ledger == CompanyLedgerRows \cup CandidateLedgerRows \cup PlacementLedgerRows

\* the query parameters; an empty source list and Unset or None leave a filter out
LedgerQueries ==
    [source : SUBSET LedgerSources, start_date : OptDates, end_date : OptDates,
     company_id : {None} \cup (1..MaxCompanies),
     candidate_id : {None} \cup (1..MaxCandidates),
     job_id : {None} \cup (1..MaxJobs),
     min_amount : {Unset} \cup (0..MaxAmount), max_amount : {Unset} \cup (0..MaxAmount),
     include_inactive : BOOLEAN]

\* the where clause without the is_active filter
ledger_filters_inactive_kept(row, q) ==
    /\ q.source # {} => row.source \in q.source
    /\ q.start_date # None => row.payment_date >= q.start_date
    /\ q.end_date # None => row.payment_date <= q.end_date
    /\ q.company_id # None => row.company_id = q.company_id
    /\ q.candidate_id # None => row.candidate_id = q.candidate_id
    /\ q.job_id # None => row.job_id = q.job_id
    /\ q.min_amount # Unset => row.amount >= q.min_amount
    /\ q.max_amount # Unset => row.amount <= q.max_amount

\* the where clause
ledger_filters(row, q) ==
    /\ q.source # {} => row.source \in q.source
    /\ q.start_date # None => row.payment_date >= q.start_date
    /\ q.end_date # None => row.payment_date <= q.end_date
    /\ q.company_id # None => row.company_id = q.company_id
    /\ q.candidate_id # None => row.candidate_id = q.candidate_id
    /\ q.job_id # None => row.job_id = q.job_id
    /\ q.min_amount # Unset => row.amount >= q.min_amount
    /\ q.max_amount # Unset => row.amount <= q.max_amount
    /\ ~q.include_inactive => row.is_active

Filtered(q) == {row \in payment_ledger : ledger_filters(row, q)}

\* order_by(payment_date.desc(), created_at.desc()): a sorts strictly before b
SortsBefore(a, b) ==
    \/ a.payment_date > b.payment_date
    \/ a.payment_date = b.payment_date /\ a.created_at > b.created_at

\* the orders the database may return the rows in: rows that tie on both keys
\* come in any order, and the order may differ from one query to the next
RECURSIVE Orders(_)
Orders(rows) ==
    IF rows = {} THEN {<<>>}
    ELSE UNION {{<<first>> \o rest : rest \in Orders(rows \ {first})} :
                   first \in {r \in rows : \A o \in rows : ~SortsBefore(o, r)}}

\* limit(limit).offset((page - 1) * limit)
Slice(order, page, limit) ==
    SubSeq(order, (page - 1) * limit + 1,
           IF page * limit < Len(order) THEN page * limit ELSE Len(order))

\* the count taken over the whole union, the where clause left out
ledger_total_unfiltered(q) == Cardinality(payment_ledger)

\* total_stmt: select count(*) from the union where the filters hold
ledger_total(q) == Cardinality(Filtered(q))

\* GET /payments/ledger; `pages' keeps the pages 1, 2, ... answered for one query
list_payment_ledger(page, limit, q) ==
    /\ \E order \in Orders(Filtered(q)) :
          pages' = IF page = 1
                   THEN [query |-> q, limit |-> limit,
                         got |-> <<Slice(order, page, limit)>>]
                   ELSE IF pages.query = q /\ pages.limit = limit
                           /\ page = Len(pages.got) + 1
                   THEN [pages EXCEPT !.got = Append(@, Slice(order, page, limit))]
                   ELSE NoPages
    /\ last' = Response("list_payment_ledger", 200, ledger_total(q))
    /\ reply' = NoReply
    /\ UNCHANGED <<dbvars, now, txns>>

---------------------------------------------------------------------------
(* Pending dues and the finance breakdown *)

\* `column <= due_before' of the where clause: a row without due_date has
\* NULL there and is left out when a cutoff is given
DueFilter(due_date, due_before) ==
    due_before = None \/ (due_date # None /\ due_date <= due_before)

\* order_by(due_date.asc()): rows without due_date come last, ties in any order
DueKey(due_date) == IF due_date = None THEN MaxDate + 1 ELSE due_date
DueOrders(table, ids) ==
    {order \in [1..Cardinality(ids) -> ids] :
        /\ \A a, b \in 1..Cardinality(ids) : a # b => order[a] # order[b]
        /\ \A a, b \in 1..Cardinality(ids) :
               a < b => DueKey(table[order[a]].due_date)
                            <= DueKey(table[order[b]].due_date)}

\* the placement incomes listed, those fully received among them
PendingIncomes_received_kept(due_before) ==
    {i \in 1..Len(placement_incomes) :
        /\ placement_incomes[i].is_active
        /\ DueFilter(placement_incomes[i].due_date, due_before)
        /\ Exists(candidates, placement_incomes[i].candidate_id)}

\* the placement incomes listed: pi_stmt and the balance test of the loop
PendingIncomes(due_before) ==
    {i \in 1..Len(placement_incomes) :
        /\ placement_incomes[i].is_active
        /\ DueFilter(placement_incomes[i].due_date, due_before)
        /\ Exists(candidates, placement_incomes[i].candidate_id)
        /\ placement_incomes[i].balance > 0}

\* the fee structures listed: course_stmt and the balance test of the loop
PendingFees(due_before) ==
    {f \in 1..Len(course_structure_fees) :
        /\ course_structure_fees[f].is_active
        /\ DueFilter(course_structure_fees[f].due_date, due_before)
        /\ Exists(candidates, course_structure_fees[f].candidate_id)
        /\ course_structure_fees[f].balance > 0}

IncomeDueItem(income) ==
    [source |-> "PLACEMENT_INCOME_PENDING",
     balance |-> income.balance,
     total_amount |-> income.total_receivable,
     candidate_id |-> income.candidate_id,
     total_received |-> income.total_received]

FeeDueItem(fee) ==
    [source |-> "COURSE_FEE_PENDING",
     balance |-> fee.balance,
     total_amount |-> fee.total_fee,
     candidate_id |-> fee.candidate_id,
     total_received |-> Max(fee.total_fee - fee.balance, 0)]

\* GET /payments/pending-dues
list_pending_dues(due_before) ==
    /\ \E incomes \in DueOrders(placement_incomes, PendingIncomes(due_before)),
          fees \in DueOrders(course_structure_fees, PendingFees(due_before)) :
          LET items ==
                  [k \in 1..Len(incomes) |->
                      IncomeDueItem(placement_incomes[incomes[k]])]
                  \o [k \in 1..Len(fees) |->
                      FeeDueItem(course_structure_fees[fees[k]])]
          IN /\ reply' = [op |-> "list_pending_dues", due_before |-> due_before,
                          items |-> items]
             /\ last' = Response("list_pending_dues", 200, Len(items))
    /\ UNCHANGED <<dbvars, now, pages, txns>>

\* date_trunc(group_by, date): the first day of the date's period; a month is
\* DaysInMonth days, day 0 opening the first
DaysInMonth == 2
date_trunc(group_by, date) ==
    IF group_by = "day" THEN date ELSE date - (date % DaysInMonth)

\* _format_period: "%Y-%m-%d" names the day, "%Y-%m" the month
_format_period(value, group_by) ==
    IF group_by = "day" THEN value ELSE value \div DaysInMonth

\* _apply_date_range on a date column
InDateRange(date, start_date, end_date) ==
    /\ start_date # None => date >= start_date
    /\ end_date # None => date <= end_date

\* the payments a stream of the breakdown counts
CompanyStream(start_date, end_date) ==
    {p \in 1..Len(company_payments) :
        /\ company_payments[p].exists
        /\ InDateRange(company_payments[p].payment_date, start_date, end_date)}
CandidateStream(start_date, end_date) ==
    {p \in 1..Len(candidate_payments) :
        /\ candidate_payments[p].is_active
        /\ InDateRange(candidate_payments[p].payment_date, start_date, end_date)}
\* the placement stream with the soft-deleted payments counted
PlacementStream_inactive_counted(start_date, end_date) ==
    {p \in 1..Len(placement_income_payments) :
        InDateRange(placement_income_payments[p].paid_date, start_date, end_date)}
PlacementStream(start_date, end_date) ==
    {p \in 1..Len(placement_income_payments) :
        /\ placement_income_payments[p].is_active
        /\ InDateRange(placement_income_payments[p].paid_date, start_date, end_date)}

\* sorted(merged.keys()): the periods in ascending order
RECURSIVE Sorted(_)
Sorted(periods) ==
    IF periods = {} THEN <<>>
    ELSE LET least == CHOOSE p \in periods : \A q \in periods : p <= q
         IN <<least>> \o Sorted(periods \ {least})

\* GET /reports/finance/breakdown
finance_breakdown(start_date, end_date, group_by) ==
    IF group_by \notin {"day", "month"}
    THEN /\ last' = Response("finance_breakdown", 400, None)
         /\ reply' = [op |-> "finance_breakdown", start_date |-> start_date,
                      end_date |-> end_date, group_by |-> group_by,
                      items |-> <<>>]
         /\ UNCHANGED <<dbvars, now, pages, txns>>
    ELSE LET company == CompanyStream(start_date, end_date)
             candidate == CandidateStream(start_date, end_date)
             placement == PlacementStream(start_date, end_date)
             Period(date) == _format_period(date_trunc(group_by, date), group_by)
             merged ==
                 {Period(company_payments[p].payment_date) : p \in company}
                 \cup {Period(candidate_payments[p].payment_date) : p \in candidate}
                 \cup {Period(placement_income_payments[p].paid_date) : p \in placement}
             Row(period) ==
                 LET company_payments_ == SumOver(company_payments,
                         {p \in company :
                             Period(company_payments[p].payment_date) = period})
                     candidate_payments_ == SumOver(candidate_payments,
                         {p \in candidate :
                             Period(candidate_payments[p].payment_date) = period})
                     placement_income == SumOver(placement_income_payments,
                         {p \in placement :
                             Period(placement_income_payments[p].paid_date) = period})
                 IN [period |-> period,
                     company_payments |-> company_payments_,
                     candidate_payments |-> candidate_payments_,
                     placement_income |-> placement_income,
                     total |-> company_payments_ + candidate_payments_
                               + placement_income]
             periods == Sorted(merged)
         IN /\ reply' = [op |-> "finance_breakdown", start_date |-> start_date,
                         end_date |-> end_date, group_by |-> group_by,
                         items |-> [k \in 1..Len(periods) |-> Row(periods[k])]]
            /\ last' = Response("finance_breakdown", 200, Len(periods))
            /\ UNCHANGED <<dbvars, now, pages, txns>>

---------------------------------------------------------------------------
(* Requests that run concurrently.  A handler reads with plain selects and *)
(* takes no row lock (no with_for_update, no version column), so between   *)
(* its reads and its commit another request may commit.  A transaction is  *)
(* two steps: begin (the reads, the checks and the values the handler      *)
(* computes from them) and commit (the writes of those values).            *)

\* the isolation level of the session; at READ COMMITTED an update of a row
\* that another transaction changed meanwhile goes through, at the higher
\* levels it fails with a serialization error
IsolationLevels == {"READ COMMITTED", "REPEATABLE READ", "SERIALIZABLE"}

Open(t) == txns[t].pc = "open"

\* the transactions in flight that will insert a row into a table
Inserting(op) == {t \in 1..MaxTxns : Open(t) /\ txns[t].op = op}

\* the update at commit fails: a row this transaction writes was written by a
\* transaction that committed after this one began
SerializationFailure(t) == txns[t].isolation # "READ COMMITTED" /\ txns[t].stale

\* the transaction ends; those in flight that write a row it has written are stale
Finish(t, written) ==
    txns' = [u \in 1..MaxTxns |->
                IF u = t THEN Idle
                ELSE IF Open(u) /\ written /\ txns[u].op = txns[t].op
                        /\ txns[u].row = txns[t].row
                THEN [txns[u] EXCEPT !.stale = TRUE]
                ELSE txns[u]]

\* the transaction is rolled back on the serialization error (500)
Abort(t) ==
    /\ Finish(t, FALSE)
    /\ last' = Response(txns[t].op, 500, None)
    /\ pages' = NoPages
    /\ reply' = NoReply
    /\ UNCHANGED <<dbvars, now>>

\* create_placement_income_payment up to the recomputation: the income is read,
\* the payment is flushed and the sum query sees it and the committed payments
begin_create_placement_income_payment(t, income_id, body, isolation) ==
    /\ txns[t] = Idle
    /\ Len(placement_income_payments)
           + Cardinality(Inserting("create_placement_income_payment"))
               < MaxIncomePayments
    /\ IF ~Active(placement_incomes, income_id)
       THEN Reject("create_placement_income_payment", 404)
       ELSE LET payment == [placement_income_id |-> income_id,
                            amount |-> body.amount, paid_date |-> body.paid_date,
                            created_at |-> now, is_active |-> TRUE]
                income == _recompute_placement_income_totals(
                              placement_incomes[income_id], income_id,
                              Append(placement_income_payments, payment))
            IN /\ txns' = [txns EXCEPT ![t] =
                      [pc |-> "open", op |-> "create_placement_income_payment",
                       isolation |-> isolation, stale |-> FALSE,
                       row |-> income_id, payment |-> payment,
                       total_received |-> income.total_received,
                       balance |-> income.balance]]
               /\ UNCHANGED <<dbvars, now, last, pages, reply>>

\* session.commit() of create_placement_income_payment
commit_create_placement_income_payment(t) ==
    /\ Open(t)
    /\ txns[t].op = "create_placement_income_payment"
    /\ IF SerializationFailure(t)
       THEN Abort(t)
       ELSE /\ placement_income_payments' =
                   Append(placement_income_payments, txns[t].payment)
            /\ placement_incomes' =
                   [placement_incomes EXCEPT
                       ![txns[t].row].total_received = txns[t].total_received,
                       ![txns[t].row].balance = txns[t].balance]
            /\ Finish(t, TRUE)
            /\ last' = Response("create_placement_income_payment", 200,
                                Len(placement_income_payments) + 1)
            /\ pages' = NoPages
            /\ reply' = NoReply
            /\ UNCHANGED <<companies, company_payments, jobs, candidates,
                           course_structure_fees, candidate_payments,
                           interviews, joined_candidates, now>>

\* update_interview_status with status JOINED up to the commit: interview, job
\* and candidate are read, the validations run on what was read, and the rows
\* to insert and the new vacancy count are computed from it
begin_update_interview_status(t, interview_id, body, isolation) ==
    /\ txns[t] = Idle
    /\ body.status = "JOINED"
    /\ IF ~Active(interviews, interview_id)
       THEN Reject("update_interview_status", 404)
       ELSE IF ~Active(jobs, interviews[interview_id].job_id)
               \/ ~Active(candidates, interviews[interview_id].candidate_id)
       THEN Reject("update_interview_status", 404)
       ELSE IF JoinedValidation(interview_id, body) # 200
       THEN Reject("update_interview_status", JoinedValidation(interview_id, body))
       ELSE LET interview == interviews[interview_id]
            IN /\ txns' = [txns EXCEPT ![t] =
                      [pc |-> "open", op |-> "update_interview_status",
                       isolation |-> isolation, stale |-> FALSE,
                       row |-> interview.job_id,
                       interview_id |-> interview_id,
                       candidate_id |-> interview.candidate_id,
                       joined |-> [job_id |-> interview.job_id,
                                   candidate_id |-> interview.candidate_id,
                                   Date_of_joining |-> body.doj,
                                   salary |-> body.salary, is_active |-> TRUE],
                       incomes |-> IF ActiveIncomes(interview_id) = {}
                                   THEN <<JoinedIncome(interview_id, body)>>
                                   ELSE <<>>,
                       num_vacancies |-> JoinedJob(jobs[interview.job_id]).num_vacancies]]
               /\ UNCHANGED <<dbvars, now, last, pages, reply>>

\* session.commit() of update_interview_status
commit_update_interview_status(t) ==
    /\ Open(t)
    /\ txns[t].op = "update_interview_status"
    /\ IF SerializationFailure(t)
       THEN Abort(t)
       ELSE /\ joined_candidates' = Append(joined_candidates, txns[t].joined)
            /\ placement_incomes' = placement_incomes \o txns[t].incomes
            /\ jobs' = [jobs EXCEPT
                   ![txns[t].row].num_vacancies = txns[t].num_vacancies,
                   ![txns[t].row].status = IF txns[t].num_vacancies = 0
                                           THEN "FULFILLED" ELSE @]
            /\ candidates' = [candidates EXCEPT
                   ![txns[t].candidate_id].employment_status = "EMPLOYED"]
            /\ interviews' = [interviews EXCEPT
                   ![txns[t].interview_id].status = "JOINED"]
            /\ Finish(t, TRUE)
            /\ last' = Response("update_interview_status", 200, 0)
            /\ pages' = NoPages
            /\ reply' = NoReply
            /\ UNCHANGED <<companies, company_payments, course_structure_fees,
                           candidate_payments, placement_income_payments, now>>

---------------------------------------------------------------------------
(* Placement-income requests on top of one company, job and candidate and  *)
(* their interviews; every date is 1                                        *)

SetupOne ==
    \/ create_company(<<>>)
    \/ /\ Len(jobs) = 0
       /\ create_job([company_id |-> 1, num_vacancies |-> 1, status |-> "OPEN"])
    \/ /\ Len(candidates) = 0
       /\ create_candidate([status |-> "FREE", fee_structure |-> NoFeeBody,
                            initial_payment |-> NoPaymentBody])
    \/ create_interview([company_id |-> 1, job_id |-> 1, candidate_id |-> 1,
                         status |-> "SCHEDULED"])

NextIncome ==
    \/ SetupOne
    \/ \E interview_id \in 1..MaxInterviews, total_receivable \in Amounts :
           create_placement_income(
               [interview_id |-> interview_id, candidate_id |-> 1, job_id |-> 1,
                total_receivable |-> total_receivable, due_date |-> 1])
    \/ \E income_id \in Ids(placement_incomes),
          total_receivable \in OptAmounts, is_active \in OptBools :
           update_placement_income(income_id,
               [total_receivable |-> total_receivable, due_date |-> None,
                is_active |-> is_active])
    \/ \E income_id \in Ids(placement_incomes) : delete_placement_income(income_id)
    \/ \E income_id \in Ids(placement_incomes), amount \in Amounts :
           create_placement_income_payment(income_id,
               [amount |-> amount, paid_date |-> 1])
    \/ \E payment_id \in Ids(placement_income_payments),
          amount \in OptAmounts, is_active \in OptBools :
           update_placement_income_payment(payment_id,
               [amount |-> amount, paid_date |-> None, is_active |-> is_active])
    \/ \E payment_id \in Ids(placement_income_payments) :
           delete_placement_income_payment(payment_id)

SpecIncome == Init /\ [][NextIncome]_vars

\* the totals a placement income must carry
TotalsConsistent(income_id) ==
    LET income == placement_incomes[income_id]
        paid == SumOver(placement_income_payments,
                        ActiveIncomePaymentsOf(income_id, placement_income_payments))
    IN /\ income.total_received = paid
       /\ income.balance = Max(0, income.total_receivable - income.total_received)

\* C1: after every committed create, update or soft-delete of a placement-income
\* payment and every committed update of a placement income, the owning income has
\* total_received = sum of its active payments and
\* balance = max(0, total_receivable - total_received); as every request runs
\* alone, this holds of every placement income in every state.
C1_TotalsAfterMutation ==
    \A income_id \in 1..Len(placement_incomes) : TotalsConsistent(income_id)

\* a soft-deleted payment is left out of the sum, and an overpayment is clamped
C1_Witness ==
    /\ last.op = "update_placement_income_payment"
    /\ last.code = 200
    /\ \E income_id \in 1..Len(placement_incomes) :
          LET income == placement_incomes[income_id]
          IN /\ income.total_received > income.total_receivable
             /\ income.balance = 0
             /\ \E p \in 1..Len(placement_income_payments) :
                    /\ placement_income_payments[p].placement_income_id = income_id
                    /\ ~placement_income_payments[p].is_active
---------------------------------------------------------------------------
(* The requests about one candidate and its payments; every date is 1      *)

FeeBodiesUndated == {body \in FeeBodies : body.due_date = None}
PaymentBodiesDay1 == {body \in CandidatePaymentBodies : body.payment_date = 1}
OptPaymentBodiesDay1 == {NoPaymentBody} \cup PaymentBodiesDay1

NextFee ==
    \/ /\ Len(candidates) = 0
       /\ \E status \in CandidateStatus, fee \in FeeBodiesUndated,
             payment \in OptPaymentBodiesDay1 :
              create_candidate([status |-> status, fee_structure |-> fee,
                                initial_payment |-> payment])
    \/ \E candidate_id \in Ids(candidates), status \in {"None"} \cup CandidateStatus,
          is_active \in OptBools, fee \in FeeBodiesUndated,
          payment \in OptPaymentBodiesDay1 :
           update_candidate(candidate_id,
               [status |-> status, is_active |-> is_active,
                fee_structure |-> fee, initial_payment |-> payment])
    \/ \E candidate_id \in Ids(candidates), status \in CandidateStatus,
          fee \in FeeBodiesUndated, payment \in OptPaymentBodiesDay1 :
           update_candidate_status(candidate_id,
               [status |-> status, fee_structure |-> fee,
                initial_payment |-> payment])
    \/ \E candidate_id \in Ids(candidates), body \in PaymentBodiesDay1 :
           create_candidate_payment(candidate_id, body)
    \/ \E payment_id \in Ids(candidate_payments), body \in PaymentBodiesDay1 :
           update_candidate_payment(payment_id, body)
    \/ \E payment_id \in Ids(candidate_payments) :
           delete_candidate_payment(payment_id)

SpecFee == Init /\ [][NextFee]_vars

\* the candidate has status COURSE and an active fee structure
CourseWithFee(candidate_id) ==
    /\ Exists(candidates, candidate_id)
    /\ candidates[candidate_id].status = "COURSE"
    /\ fee_structure(candidate_id) # 0
    /\ course_structure_fees[fee_structure(candidate_id)].is_active

\* balance = total_fee - sum of the candidate's active payments, not clamped
FeeBalanceConsistent(candidate_id) ==
    LET fee == course_structure_fees[fee_structure(candidate_id)]
    IN fee.balance = fee.total_fee
                     - SumOver(candidate_payments,
                               ActivePaymentsOf(candidate_id, candidate_payments))

PaymentCandidate(payment_id) == candidate_payments[payment_id].candidate_id

\* C2: a create, update or soft-delete of a candidate payment through the
\* candidate-payment endpoints commits, and after it the fee structure of an
\* owning candidate in status COURSE has
\* balance = total_fee - sum of the candidate's active payments (not clamped).
C2_BalanceAfterPaymentMutation ==
    [][/\ \A candidate_id \in 1..Len(candidates), body \in CandidatePaymentBodies :
            (/\ create_candidate_payment(candidate_id, body)
             /\ last'.code # 404
             /\ CourseWithFee(candidate_id))
                => last'.code = 200 /\ FeeBalanceConsistent(candidate_id)'
       /\ \A payment_id \in 1..Len(candidate_payments),
             body \in CandidatePaymentBodies :
            (/\ update_candidate_payment(payment_id, body)
             /\ last'.code # 404
             /\ CourseWithFee(PaymentCandidate(payment_id)))
                => /\ last'.code = 200
                   /\ FeeBalanceConsistent(PaymentCandidate(payment_id))'
       /\ \A payment_id \in 1..Len(candidate_payments) :
            (/\ delete_candidate_payment(payment_id)
             /\ last'.code # 404
             /\ CourseWithFee(PaymentCandidate(payment_id)))
                => /\ last'.code = 200
                   /\ FeeBalanceConsistent(PaymentCandidate(payment_id))'
      ]_vars

FeeBalance(candidate_id) == course_structure_fees[fee_structure(candidate_id)].balance

\* C8: a candidate created with status COURSE, total_fee F and initial payment
\* P <= F has balance F - P; creating a further payment Q lowers the balance by Q,
\* and soft-deleting that payment raises it by Q again.
C8_CreateThenDeleteRestores ==
    [][/\ \A body \in CandidateCreateBodies :
            (/\ create_candidate(body)
             /\ body.status = "COURSE"
             /\ body.fee_structure.given /\ body.initial_payment.given
             /\ body.initial_payment.amount <= body.fee_structure.total_fee)
                => course_structure_fees'[Len(course_structure_fees')].balance
                       = body.fee_structure.total_fee - body.initial_payment.amount
       /\ \A candidate_id \in 1..Len(candidates), body \in CandidatePaymentBodies :
            (/\ create_candidate_payment(candidate_id, body)
             /\ candidates[candidate_id].is_active
             /\ CourseWithFee(candidate_id))
                => FeeBalance(candidate_id)' = FeeBalance(candidate_id) - body.amount
       /\ \A payment_id \in 1..Len(candidate_payments) :
            (/\ delete_candidate_payment(payment_id)
             /\ candidate_payments[payment_id].is_active
             /\ candidates[candidate_payments[payment_id].candidate_id].is_active
             /\ CourseWithFee(candidate_payments[payment_id].candidate_id))
                => FeeBalance(candidate_payments[payment_id].candidate_id)'
                       = FeeBalance(candidate_payments[payment_id].candidate_id)
                         + candidate_payments[payment_id].amount
      ]_vars

---------------------------------------------------------------------------
(* Interview status transitions over jobs, candidates and their interviews *)

FreeCandidate ==
    [status |-> "FREE", fee_structure |-> NoFeeBody, initial_payment |-> NoPaymentBody]

\* the JOINED requests: complete ones, and ones that lack a required field
JoinedBody(placement_due_date) ==
    [status |-> "JOINED", doj |-> 1, salary |-> 1,
     placement_total_receivable |-> 1, placement_due_date |-> placement_due_date]
JoinedBodies ==
    {JoinedBody(None), JoinedBody(2)} \cup
    {[JoinedBody(None) EXCEPT ![field] = None] :
        field \in {"doj", "salary", "placement_total_receivable"}}
OnHoldBody ==
    [status |-> "ON_HOLD", doj |-> None, salary |-> None,
     placement_total_receivable |-> None, placement_due_date |-> None]

Deactivate == [num_vacancies |-> Unset, status |-> "None", is_active |-> "False"]
DeactivateCandidate ==
    [status |-> "None", is_active |-> "False", fee_structure |-> NoFeeBody,
     initial_payment |-> NoPaymentBody]

SetupJoin ==
    \/ create_company(<<>>)
    \/ /\ Len(jobs) = 0
       /\ \E num_vacancies \in 1..MaxVacancies :
          \E status \in {"OPEN", "FULFILLED"} :
              create_job([company_id |-> 1, num_vacancies |-> num_vacancies,
                          status |-> status])
    \/ create_candidate(FreeCandidate)
    \/ \E candidate_id \in 1..MaxCandidates :
           create_interview([company_id |-> 1, job_id |-> 1,
                             candidate_id |-> candidate_id, status |-> "SCHEDULED"])

JoinedRequests ==
    \E interview_id \in Ids(interviews), body \in JoinedBodies \cup {OnHoldBody} :
        update_interview_status(interview_id, body)

\* joins, with incomes opened by hand before them
NextJoin ==
    \/ SetupJoin
    \/ JoinedRequests
    \/ \E interview_id \in Ids(interviews) : delete_interview(interview_id)
    \/ \E interview_id \in 1..Len(interviews) :
           create_placement_income(
               [interview_id |-> interview_id,
                candidate_id |-> interviews[interview_id].candidate_id,
                job_id |-> interviews[interview_id].job_id,
                total_receivable |-> 2, due_date |-> 1])

\* joins, with interviews, jobs and candidates being deactivated
NextRefusal ==
    \/ SetupJoin
    \/ JoinedRequests
    \/ \E interview_id \in Ids(interviews) : delete_interview(interview_id)
    \/ \E job_id \in Ids(jobs) : update_job(job_id, Deactivate)
    \/ \E candidate_id \in Ids(candidates) :
           update_candidate(candidate_id, DeactivateCandidate)

SpecJoin == Init /\ [][NextJoin]_vars
SpecRefusal == Init /\ [][NextRefusal]_vars


\* the job and the candidate of an interview
JobOf(interview_id) == interviews[interview_id].job_id
CandidateOf(interview_id) == interviews[interview_id].candidate_id

\* some active Joined_candidates row is about the interview's (job, candidate)
PairJoined(interview_id) ==
    \E r \in 1..Len(joined_candidates) :
        /\ joined_candidates[r].is_active
        /\ joined_candidates[r].job_id = JobOf(interview_id)
        /\ joined_candidates[r].candidate_id = CandidateOf(interview_id)

\* at most one active Joined_candidates row per (job, candidate)
UniqueJoined ==
    \A r1, r2 \in 1..Len(joined_candidates) :
        (/\ joined_candidates[r1].is_active /\ joined_candidates[r2].is_active
         /\ joined_candidates[r1].job_id = joined_candidates[r2].job_id
         /\ joined_candidates[r1].candidate_id = joined_candidates[r2].candidate_id)
            => r1 = r2

\* the request names an active interview of an active job and candidate and
\* carries doj, salary and placement_total_receivable
WellFormedJoined(interview_id, body) ==
    /\ interviews[interview_id].is_active
    /\ jobs[JobOf(interview_id)].is_active
    /\ candidates[CandidateOf(interview_id)].is_active
    /\ body.doj # None /\ body.salary # None
    /\ body.placement_total_receivable # None

\* C3 as stated: at most one active Joined_candidates row per (job, candidate),
\* and every JOINED transition attempted for a pair that already has an active
\* row is rejected with 409 and inserts nothing.
C3_SecondJoinedAlwaysConflict ==
    /\ []UniqueJoined
    /\ [][\A interview_id \in 1..Len(interviews), body \in JoinedBodies :
            (update_interview_status(interview_id, body) /\ PairJoined(interview_id))
                => /\ last'.code = 409
                   /\ joined_candidates' = joined_candidates]_vars

\* C3 as amended: at most one active Joined_candidates row per (job, candidate);
\* a JOINED transition attempted for a pair that already has an active row
\* inserts nothing, and is rejected with 409 when the interview, its job and its
\* candidate are active and doj, salary and placement_total_receivable are
\* given, and with 400 or 404 otherwise.
C3_SecondJoinedRejected ==
    /\ []UniqueJoined
    /\ [][\A interview_id \in 1..Len(interviews), body \in JoinedBodies :
            (update_interview_status(interview_id, body) /\ PairJoined(interview_id))
                => /\ joined_candidates' = joined_candidates
                   /\ IF WellFormedJoined(interview_id, body)
                      THEN last'.code = 409
                      ELSE last'.code \in {400, 404}]_vars

\* a second interview of an already joined pair was refused
C3_Witness ==
    /\ last.op = "update_interview_status"
    /\ last.code = 409
    /\ \E i1, i2 \in 1..Len(interviews) :
          /\ i1 # i2
          /\ JobOf(i1) = JobOf(i2) /\ CandidateOf(i1) = CandidateOf(i2)
          /\ interviews[i1].status = "JOINED"
          /\ interviews[i2].status # "JOINED" /\ interviews[i2].is_active
          /\ PairJoined(i2)
    /\ Len(joined_candidates) = 1

\* some active PlacementIncome row is about the interview
HasActiveIncome(interview_id) ==
    \E p \in 1..Len(placement_incomes) :
        /\ placement_incomes[p].is_active
        /\ placement_incomes[p].interview_id = interview_id

\* C4: a JOINED transition on an interview that already has an active
\* PlacementIncome creates no PlacementIncome row, leaves every existing row as
\* it was, and when it succeeds returns the id of an active PlacementIncome of
\* that interview.
C4_JoinedReusesIncome ==
    [][\A interview_id \in 1..Len(interviews), body \in JoinedBodies :
          (update_interview_status(interview_id, body) /\ HasActiveIncome(interview_id))
              => /\ placement_incomes' = placement_incomes
                 /\ last'.code = 200 =>
                        /\ last'.ret \in 1..Len(placement_incomes)
                        /\ placement_incomes[last'.ret].is_active
                        /\ placement_incomes[last'.ret].interview_id = interview_id
      ]_vars

\* a JOINED transition succeeded and answered with the income opened before it,
\* whose receivable is not the one the request carried
C4_Witness ==
    /\ last.op = "update_interview_status"
    /\ last.code = 200
    /\ last.ret \in 1..Len(placement_incomes)
    /\ placement_incomes[last.ret].total_receivable = 2
    /\ interviews[placement_incomes[last.ret].interview_id].status = "JOINED"
    /\ Len(joined_candidates) = 1
    /\ \A p \in 1..Len(placement_incomes) : placement_incomes[p].total_receivable = 2

FailsValidation(interview_id, body) ==
    \/ ~Exists(interviews, interview_id)
    \/ ~interviews[interview_id].is_active
    \/ ~Exists(jobs, JobOf(interview_id))
    \/ ~jobs[JobOf(interview_id)].is_active
    \/ ~Exists(candidates, CandidateOf(interview_id))
    \/ ~candidates[CandidateOf(interview_id)].is_active
    \/ body.doj = None \/ body.salary = None
    \/ body.placement_total_receivable = None
    \/ candidates[CandidateOf(interview_id)].employment_status = "EMPLOYED"
    \/ jobs[JobOf(interview_id)].num_vacancies <= 0
    \/ PairJoined(interview_id)

\* C7: a JOINED transition that fails a validation (doj or salary missing,
\* placement_total_receivable missing, candidate already EMPLOYED, no vacancy,
\* already joined, interview, job or candidate missing or inactive) is refused
\* and leaves jobs, candidates, interviews, Joined_candidates rows and
\* PlacementIncome rows as they were.
C7_FailedJoinedChangesNothing ==
    [][\A interview_id \in Ids(interviews), body \in JoinedBodies :
          (update_interview_status(interview_id, body)
           /\ FailsValidation(interview_id, body))
              => /\ last'.code \in {400, 404, 409}
                 /\ UNCHANGED <<jobs, candidates, interviews, joined_candidates,
                                placement_incomes>>
      ]_vars

\* a candidate without employment was refused the job whose vacancies are taken
C7_Witness ==
    /\ last.op = "update_interview_status"
    /\ last.code = 400
    /\ \E interview_id \in 1..Len(interviews) :
          /\ interviews[interview_id].is_active
          /\ interviews[interview_id].status = "SCHEDULED"
          /\ Active(jobs, JobOf(interview_id))
          /\ jobs[JobOf(interview_id)].num_vacancies = 0
          /\ Active(candidates, CandidateOf(interview_id))
          /\ candidates[CandidateOf(interview_id)].employment_status = "UNEMPLOYED"
          /\ \A other \in 1..Len(interviews) :
                 other # interview_id => interviews[other].status = "JOINED"
---------------------------------------------------------------------------
(* The operations on a job: joins, job updates and job status updates      *)

NextVacancy ==
    \/ create_company(<<>>)
    \/ /\ Len(jobs) = 0
       /\ \E num_vacancies \in 1..MaxVacancies :
              create_job([company_id |-> 1, num_vacancies |-> num_vacancies,
                          status |-> "OPEN"])
    \/ create_candidate(FreeCandidate)
    \/ \E candidate_id \in 1..MaxCandidates :
           create_interview([company_id |-> 1, job_id |-> 1,
                             candidate_id |-> candidate_id, status |-> "SCHEDULED"])
    \/ \E interview_id \in Ids(interviews), due \in {None, 2} :
           update_interview_status(interview_id, JoinedBody(due))
    \/ \E job_id \in Ids(jobs), body \in JobUpdateBodies : update_job(job_id, body)
    \/ \E job_id \in Ids(jobs), status \in JobStatus :
           update_job_status(job_id, status)

SpecVacancy == Init /\ [][NextVacancy]_vars

\* C5: over joins, job updates and job status updates, num_vacancies of a job
\* never increases from one state to the next, the status of a job is FULFILLED
\* only in states where its num_vacancies is 0, and it becomes FULFILLED in the
\* step where num_vacancies reaches 0.
C5_VacanciesNeverIncrease ==
    /\ [](\A job_id \in 1..Len(jobs) :
              jobs[job_id].status = "FULFILLED" => jobs[job_id].num_vacancies = 0)
    /\ [][\A job_id \in 1..Len(jobs) :
              /\ jobs'[job_id].num_vacancies <= jobs[job_id].num_vacancies
              /\ (jobs[job_id].num_vacancies > 0 /\ jobs'[job_id].num_vacancies = 0)
                     => jobs'[job_id].status = "FULFILLED"]_vars
---------------------------------------------------------------------------
(* The ledger over payments of the three tables *)

MaxLimit == 6

RegisteredOrCourse ==
    {[status |-> "REGISTERED", fee_structure |-> NoFeeBody,
      initial_payment |-> [given |-> TRUE, amount |-> 1, payment_date |-> 2]],
     [status |-> "COURSE",
      fee_structure |-> [given |-> TRUE, total_fee |-> 2, due_date |-> None],
      initial_payment |-> [given |-> TRUE, amount |-> 1, payment_date |-> 2]]}

LedgerQueriesAsked == {Unfiltered, [Unfiltered EXCEPT !.include_inactive = TRUE]}

SetupLedger ==
    \/ \E payments \in {<<>>, <<[amount |-> 1, payment_date |-> 1]>>} :
           create_company(payments)
    \/ /\ Len(jobs) = 0
       /\ create_job([company_id |-> 1, num_vacancies |-> 1, status |-> "OPEN"])
    \/ /\ Len(candidates) = 0
       /\ \E body \in RegisteredOrCourse : create_candidate(body)
    \/ /\ Len(interviews) = 0
       /\ create_interview([company_id |-> 1, job_id |-> 1, candidate_id |-> 1,
                            status |-> "SCHEDULED"])
    \/ /\ Len(placement_incomes) = 0
       /\ create_placement_income([interview_id |-> 1, candidate_id |-> 1,
                                   job_id |-> 1, total_receivable |-> 2,
                                   due_date |-> 1])

NextLedger ==
    \/ SetupLedger
    \/ \E d \in Dates :
           create_company_payment(1, [amount |-> 2, payment_date |-> d])
    \/ \E payment_id \in 1..Len(company_payments) : delete_payment(payment_id)
    \/ \E d \in Dates :
           create_placement_income_payment(1, [amount |-> 1, paid_date |-> d])
    \/ \E payment_id \in 1..Len(placement_income_payments) :
           delete_placement_income_payment(payment_id)
    \/ \E limit \in {2, MaxLimit}, q \in LedgerQueriesAsked :
           list_payment_ledger(1, limit, q)

SpecLedger == Init /\ [][NextLedger]_vars

\* the number of rows of a page that are about payment id of a table
RowsOf(items, sources, id) ==
    Cardinality({i \in 1..Len(items) : items[i].source \in sources /\ items[i].id = id})

CompanyPaymentIds == {p \in 1..Len(company_payments) : company_payments[p].exists}
ActiveCandidatePaymentIds ==
    {p \in 1..Len(candidate_payments) : candidate_payments[p].is_active}
ActivePlacementPaymentIds ==
    {p \in 1..Len(placement_income_payments) : placement_income_payments[p].is_active}

\* C9: the unfiltered ledger (include_inactive false), asked for on one page
\* that holds it all, has exactly one row per company payment, tagged
\* COMPANY_PAYMENT, one per active candidate payment, tagged COURSE_FEE when the
\* candidate's status is COURSE and REGISTRATION_FEE otherwise, one per active
\* placement-income payment, tagged PLACEMENT_INCOME, and no other row; a row
\* with a later payment_date comes before a row with an earlier one.
C9_UnfilteredLedger ==
    (/\ last.op = "list_payment_ledger"
     /\ Len(pages.got) = 1
     /\ pages.query = Unfiltered
     /\ pages.limit >= Cardinality(CompanyPaymentIds)
                       + Cardinality(ActiveCandidatePaymentIds)
                       + Cardinality(ActivePlacementPaymentIds))
        => LET items == pages.got[1]
           IN /\ \A p \in CompanyPaymentIds :
                     RowsOf(items, {"COMPANY_PAYMENT"}, p) = 1
              /\ \A p \in ActiveCandidatePaymentIds :
                     /\ RowsOf(items, {"COURSE_FEE", "REGISTRATION_FEE"}, p) = 1
                     /\ RowsOf(items,
                               {IF candidates[candidate_payments[p].candidate_id].status
                                       = "COURSE"
                                THEN "COURSE_FEE" ELSE "REGISTRATION_FEE"}, p) = 1
              /\ \A p \in ActivePlacementPaymentIds :
                     RowsOf(items, {"PLACEMENT_INCOME"}, p) = 1
              /\ Len(items) = Cardinality(CompanyPaymentIds)
                              + Cardinality(ActiveCandidatePaymentIds)
                              + Cardinality(ActivePlacementPaymentIds)
              /\ \A i, j \in 1..Len(items) :
                     i < j => items[i].payment_date >= items[j].payment_date

\* rows of all three tables on one page, the latest first, a soft-deleted
\* placement payment left out
C9_Witness ==
    /\ last.op = "list_payment_ledger"
    /\ Len(pages.got) = 1
    /\ pages.query = Unfiltered
    /\ LET items == pages.got[1]
       IN /\ Len(items) = 3
          /\ items[1].source = "PLACEMENT_INCOME"
          /\ items[2].source = "COURSE_FEE"
          /\ items[3].source = "COMPANY_PAYMENT"
          /\ items[1].payment_date > items[3].payment_date
    /\ \E p \in 1..Len(placement_income_payments) :
           ~placement_income_payments[p].is_active

---------------------------------------------------------------------------
(* The pages of the ledger over company payments *)

PageQueriesAsked == {Unfiltered, [Unfiltered EXCEPT !.source = {"COMPANY_PAYMENT"}]}

NextPages ==
    \/ \E payments \in {<<>>} \cup [1..2 -> CompanyPaymentBodies] :
           create_company(payments)
    \/ \E body \in CompanyPaymentBodies : create_company_payment(1, body)
    \/ Tick
    \/ \E page \in 1..MaxCompanyPayments, limit \in 1..2, q \in PageQueriesAsked :
           list_payment_ledger(page, limit, q)

SpecPages == Init /\ [][NextPages]_vars

RECURSIVE Concat(_)
Concat(seqs) == IF seqs = <<>> THEN <<>> ELSE Head(seqs) \o Concat(Tail(seqs))

\* C10: for a fixed database state and fixed filters, the pages 1..n asked for
\* with one limit are consecutive slices of one order by payment_date descending,
\* then created_at descending: no row is on two pages, and once the pages cover
\* the count of the filtered rows no filtered row is missing from them, also
\* when rows share payment_date and created_at.
C10_PagesAreSlices ==
    pages.limit > 0 =>
        LET all == Concat(pages.got)
        IN /\ \A i, j \in 1..Len(all) : i < j => all[i] # all[j]
           /\ \A i, j \in 1..Len(all) : i < j => ~SortsBefore(all[j], all[i])
           /\ Len(pages.got) * pages.limit >= Cardinality(Filtered(pages.query))
                  => \A row \in Filtered(pages.query) :
                         \E i \in 1..Len(all) : all[i] = row
---------------------------------------------------------------------------
(* The ledger under filters *)

TotalQueriesAsked ==
    {Unfiltered,
     [Unfiltered EXCEPT !.include_inactive = TRUE],
     [Unfiltered EXCEPT !.source = {"PLACEMENT_INCOME", "COURSE_FEE"}],
     [Unfiltered EXCEPT !.start_date = 2],
     [Unfiltered EXCEPT !.end_date = 1, !.include_inactive = TRUE],
     [Unfiltered EXCEPT !.company_id = 1],
     [Unfiltered EXCEPT !.candidate_id = 1, !.min_amount = 1],
     [Unfiltered EXCEPT !.job_id = 1, !.include_inactive = TRUE],
     [Unfiltered EXCEPT !.min_amount = 2, !.max_amount = 2]}

NextTotals ==
    \/ create_company(<<[amount |-> 1, payment_date |-> 1]>>)
    \/ create_company_payment(1, [amount |-> 2, payment_date |-> 2])
    \/ /\ Len(jobs) = 0
       /\ create_job([company_id |-> 1, num_vacancies |-> 1, status |-> "OPEN"])
    \/ /\ Len(candidates) = 0
       /\ \E body \in RegisteredOrCourse : create_candidate(body)
    \/ /\ Len(interviews) = 0
       /\ create_interview([company_id |-> 1, job_id |-> 1, candidate_id |-> 1,
                            status |-> "SCHEDULED"])
    \/ /\ Len(placement_incomes) = 0
       /\ create_placement_income([interview_id |-> 1, candidate_id |-> 1,
                                   job_id |-> 1, total_receivable |-> 2,
                                   due_date |-> 1])
    \/ \E amount \in Amounts :
           create_placement_income_payment(1, [amount |-> amount, paid_date |-> amount])
    \/ \E payment_id \in 1..Len(placement_income_payments) :
           delete_placement_income_payment(payment_id)
    \* page 1 of a query, or the page after the ones answered
    \/ \E page \in 1..2, limit \in {1, MaxLimit}, q \in TotalQueriesAsked :
           /\ page = 1 \/ (pages.limit = limit /\ pages.query = q
                            /\ page = Len(pages.got) + 1)
           /\ list_payment_ledger(page, limit, q)

SpecTotals == Init /\ [][NextTotals]_vars

\* a row of the merged set satisfies every filter the query supplies; a company
\* payment counts as active
Satisfies(row, q) ==
    /\ q.source = {} \/ row.source \in q.source
    /\ q.start_date = None \/ row.payment_date >= q.start_date
    /\ q.end_date = None \/ row.payment_date <= q.end_date
    /\ q.company_id = None \/ row.company_id = q.company_id
    /\ q.candidate_id = None \/ row.candidate_id = q.candidate_id
    /\ q.job_id = None \/ row.job_id = q.job_id
    /\ q.min_amount = Unset \/ row.amount >= q.min_amount
    /\ q.max_amount = Unset \/ row.amount <= q.max_amount
    /\ \/ q.include_inactive
       \/ row.source = "COMPANY_PAYMENT"
       \/ row.source = "PLACEMENT_INCOME" /\ placement_income_payments[row.id].is_active
       \/ row.source \in {"COURSE_FEE", "REGISTRATION_FEE"}
          /\ candidate_payments[row.id].is_active

\* C11: for every filter combination the total the ledger reports is the number
\* of rows of the merged three-table set that satisfy all supplied filters,
\* whatever page and limit are asked for; with include_inactive false no row
\* returned has is_active false, and every company payment counts as active.
C11_TotalCountsFiltered ==
    last.op = "list_payment_ledger" =>
        /\ last.ret = Cardinality({row \in payment_ledger :
                                       Satisfies(row, pages.query)})
        /\ \A row \in payment_ledger : row.source = "COMPANY_PAYMENT" => row.is_active
        /\ ~pages.query.include_inactive
               => \A p \in 1..Len(pages.got) : \A i \in 1..Len(pages.got[p]) :
                      pages.got[p][i].is_active

\* a filtered ledger of more rows than its first page holds, an inactive
\* placement payment left out of the total
C11_Witness ==
    /\ last.op = "list_payment_ledger"
    /\ pages.limit = 1
    /\ pages.query = [Unfiltered EXCEPT !.company_id = 1]
    /\ Len(pages.got) = 1
    /\ last.ret = 3
    /\ Cardinality(payment_ledger) = 5
    /\ \E p \in 1..Len(placement_income_payments) :
           ~placement_income_payments[p].is_active
---------------------------------------------------------------------------
(* Concurrent payments on one placement income *)

Quiet == \A t \in 1..MaxTxns : ~Open(t)

NextPaymentRace ==
    \/ SetupOne
    \/ /\ Len(placement_incomes) = 0
       /\ create_placement_income([interview_id |-> 1, candidate_id |-> 1,
                                   job_id |-> 1, total_receivable |-> 2,
                                   due_date |-> 1])
    \/ \E t \in 1..MaxTxns, amount \in Amounts, isolation \in IsolationLevels :
           begin_create_placement_income_payment(
               t, 1, [amount |-> amount, paid_date |-> 1], isolation)
    \/ \E t \in 1..MaxTxns : commit_create_placement_income_payment(t)

SpecPaymentRace == Init /\ [][NextPaymentRace]_vars

\* C12: when two payment creations on one PlacementIncome run concurrently,
\* each reading the sum and then writing in its own transaction, then once
\* both have committed total_received and balance of the income reflect both
\* payments: no interleaving leaves a stale sum in the income.
C12_NoLostUpdate ==
    Quiet => \A income_id \in 1..Len(placement_incomes) : TotalsConsistent(income_id)

---------------------------------------------------------------------------
(* Concurrent JOINED transitions on one job *)

\* the active Joined_candidates rows of a job
JoinedOf(job_id) ==
    {r \in 1..Len(joined_candidates) :
        joined_candidates[r].is_active /\ joined_candidates[r].job_id = job_id}

JoinedRace ==
    \/ \E t \in 1..MaxTxns, interview_id \in Ids(interviews) :
       \E body \in JoinedBodies, isolation \in IsolationLevels :
           begin_update_interview_status(t, interview_id, body, isolation)
    \/ \E t \in 1..MaxTxns : commit_update_interview_status(t)

\* one job with a single vacancy, and one interview for each candidate
NextVacancyRace ==
    \/ create_company(<<>>)
    \/ /\ Len(jobs) = 0
       /\ create_job([company_id |-> 1, num_vacancies |-> 1, status |-> "OPEN"])
    \/ create_candidate(FreeCandidate)
    \/ create_interview([company_id |-> 1, job_id |-> 1,
                         candidate_id |-> Len(interviews) + 1,
                         status |-> "SCHEDULED"])
    \/ JoinedRace

SpecVacancyRace == Init /\ [][NextVacancyRace]_vars

\* C13: when JOINED transitions for two different candidates on a job with
\* num_vacancies = 1 run concurrently, at most one of them succeeds: the job
\* never has active joined rows of more candidates than the one vacancy it had.
C13_OneVacancyOneJoined ==
    Cardinality({joined_candidates[r].candidate_id : r \in JoinedOf(1)}) <= 1

\* one job with two vacancies, and two interviews of one candidate for it
NextPairRace ==
    \/ create_company(<<>>)
    \/ /\ Len(jobs) = 0
       /\ create_job([company_id |-> 1, num_vacancies |-> 2, status |-> "OPEN"])
    \/ /\ Len(candidates) = 0
       /\ create_candidate(FreeCandidate)
    \/ create_interview([company_id |-> 1, job_id |-> 1, candidate_id |-> 1,
                         status |-> "SCHEDULED"])
    \/ JoinedRace

SpecPairRace == Init /\ [][NextPairRace]_vars

\* C14: when JOINED is requested concurrently on two interviews of the same
\* (job, candidate) pair, then once both requests have finished there is at
\* most one active joined row for the pair (the other request got a Conflict).
C14_OneJoinedPerPair ==
    (/\ Quiet
     /\ Len(interviews) = 2
     /\ \A interview_id \in 1..2 : interviews[interview_id].status = "JOINED")
        => UniqueJoined
---------------------------------------------------------------------------
(* Status changes of an interview after it has joined *)

\* PUT bodies that give a status only
StatusOnly(status) ==
    [job_id |-> None, candidate_id |-> None, status |-> status, is_active |-> "None"]

NextTerminal ==
    \/ SetupJoin
    \/ JoinedRequests
    \/ \E interview_id \in Ids(interviews), status \in InterviewStatus :
           update_interview(interview_id, StatusOnly(status))

SpecTerminal == Init /\ [][NextTerminal]_vars

\* C15: JOINED is terminal and one-way: once the status of an interview is
\* JOINED, no later operation (status transition, interview update) changes
\* it to another value.
C15_JoinedIsTerminal ==
    [][\A interview_id \in 1..Len(interviews) :
           interviews[interview_id].status = "JOINED"
               => interviews'[interview_id].status = "JOINED"]_vars
---------------------------------------------------------------------------
(* Placement incomes of an interview *)

NextOneIncome ==
    \/ SetupOne
    \/ JoinedRequests
    \/ \E interview_id \in 1..MaxInterviews, total_receivable \in Amounts :
           create_placement_income(
               [interview_id |-> interview_id, candidate_id |-> 1, job_id |-> 1,
                total_receivable |-> total_receivable, due_date |-> 1])
    \/ \E income_id \in Ids(placement_incomes),
          total_receivable \in OptAmounts, is_active \in OptBools :
           update_placement_income(income_id,
               [total_receivable |-> total_receivable, due_date |-> None,
                is_active |-> is_active])
    \/ \E income_id \in Ids(placement_incomes) : delete_placement_income(income_id)

SpecOneIncome == Init /\ [][NextOneIncome]_vars

\* C16: in every state reachable by JOINED transitions and placement-income
\* create, update and delete requests, there is at most one active
\* PlacementIncome per interview.
C16_OneActiveIncomePerInterview ==
    \A a, b \in 1..Len(placement_incomes) :
        (/\ placement_incomes[a].is_active
         /\ placement_incomes[b].is_active
         /\ placement_incomes[a].interview_id = placement_incomes[b].interview_id)
            => a = b
---------------------------------------------------------------------------
(* The fee policy over candidate create, full update and status change *)

\* one fee structure and one payment, given or not
PolicyFees == {NoFeeBody, [given |-> TRUE, total_fee |-> MaxAmount, due_date |-> None]}
PolicyPayments == {NoPaymentBody, [given |-> TRUE, amount |-> 1, payment_date |-> 1]}
PolicyCreateBodies ==
    [status : CandidateStatus, fee_structure : PolicyFees,
     initial_payment : PolicyPayments]
PolicyUpdateBodies ==
    [status : {"None"} \cup CandidateStatus, is_active : OptBools,
     fee_structure : PolicyFees, initial_payment : PolicyPayments]

NextPolicy ==
    \/ /\ Len(candidates) = 0
       /\ \E body \in PolicyCreateBodies : create_candidate(body)
    \/ \E candidate_id \in Ids(candidates), body \in PolicyUpdateBodies :
           update_candidate(candidate_id, body)
    \/ \E candidate_id \in Ids(candidates), body \in PolicyCreateBodies :
           update_candidate_status(candidate_id, body)

SpecPolicy == Init /\ [][NextPolicy]_vars

\* the fee structures of a candidate, and the active ones
FeesOf(candidate_id) ==
    {f \in 1..Len(course_structure_fees) :
        course_structure_fees[f].candidate_id = candidate_id}
ActiveFeesOf(candidate_id) ==
    {f \in FeesOf(candidate_id) : course_structure_fees[f].is_active}

\* C17: in every state reachable by candidate create, full update and
\* status-change requests, a candidate with status FREE or REGISTERED has no
\* fee structure and a candidate with status COURSE has exactly one active
\* fee structure.
C17_FeeStructureFollowsStatus ==
    \A candidate_id \in 1..Len(candidates) :
        /\ candidates[candidate_id].status \in {"FREE", "REGISTERED"}
               => FeesOf(candidate_id) = {}
        /\ candidates[candidate_id].status = "COURSE"
               => Cardinality(ActiveFeesOf(candidate_id)) = 1

\* the fee data of a request body is forbidden for the status it targets
Forbidden(status, body) ==
    \/ status = "FREE" /\ (body.fee_structure.given \/ body.initial_payment.given)
    \/ status = "REGISTERED" /\ body.fee_structure.given

\* the status a full update targets: the one it gives, else the candidate's own
TargetStatus(candidate_id, body) ==
    IF body.status # "None" THEN body.status
    ELSE IF Exists(candidates, candidate_id) THEN candidates[candidate_id].status
    ELSE "None"

ClientError == 400..499

PolicyRefusal ==
    /\ last'.code \in ClientError
    /\ UNCHANGED <<candidates, course_structure_fees, candidate_payments>>

\* C18: on candidate create, full update and status change alike, a request
\* whose target status is FREE and that gives a fee_structure or an
\* initial_payment, or whose target status is REGISTERED and that gives a
\* fee_structure, is rejected with a client error, and the candidate's status,
\* fee structure and payments are after it as they were before.
C18_FeePolicyRefusal ==
    [][/\ \A body \in PolicyCreateBodies :
            (create_candidate(body) /\ Forbidden(body.status, body))
                => PolicyRefusal
       /\ \A candidate_id \in Ids(candidates), body \in PolicyUpdateBodies :
            (update_candidate(candidate_id, body)
             /\ Forbidden(TargetStatus(candidate_id, body), body))
                => PolicyRefusal
       /\ \A candidate_id \in Ids(candidates), body \in PolicyCreateBodies :
            (update_candidate_status(candidate_id, body)
             /\ Forbidden(body.status, body))
                => PolicyRefusal
      ]_vars

\* a full update of a COURSE candidate to REGISTERED gave a fee_structure and
\* was refused: the candidate is still COURSE
C18_Witness ==
    /\ last.op = "update_candidate"
    /\ last.code = 400
    /\ Active(candidates, 1)
    /\ candidates[1].status = "COURSE"
    /\ Cardinality(ActiveFeesOf(1)) = 1
    /\ Len(candidate_payments) = 1

\* the fee structure of the candidate is the one the request gives
FeeAsSupplied(candidate_id, body) ==
    /\ last'.code = 200
    /\ Cardinality(FeesOf(candidate_id)') = 1
    /\ \A f \in FeesOf(candidate_id)' :
          /\ course_structure_fees'[f].total_fee = body.fee_structure.total_fee
          /\ course_structure_fees'[f].due_date = body.fee_structure.due_date
          /\ course_structure_fees'[f].balance =
                 IF body.initial_payment.given
                 THEN body.fee_structure.total_fee - body.initial_payment.amount
                 ELSE body.fee_structure.total_fee

\* C23: a full candidate update or status change with effective status COURSE
\* that gives a fee_structure succeeds, with or without an initial_payment,
\* and leaves the candidate's fee structure with the total_fee and due_date
\* given and balance = total_fee - initial_payment amount of the same request
\* (total_fee when none is given), whether the fee structure is new or existed.
C23_CourseFeeAsSupplied ==
    [][/\ \A candidate_id \in 1..Len(candidates), body \in PolicyUpdateBodies :
            (/\ update_candidate(candidate_id, body)
             /\ candidates[candidate_id].is_active
             /\ TargetStatus(candidate_id, body) = "COURSE"
             /\ body.fee_structure.given)
                => FeeAsSupplied(candidate_id, body)
       /\ \A candidate_id \in 1..Len(candidates), body \in PolicyCreateBodies :
            (/\ update_candidate_status(candidate_id, body)
             /\ candidates[candidate_id].is_active
             /\ body.status = "COURSE"
             /\ body.fee_structure.given)
                => FeeAsSupplied(candidate_id, body)
      ]_vars
---------------------------------------------------------------------------
(* The outcomes of creating a candidate payment *)

PaymentsUnchanged == UNCHANGED <<candidate_payments, course_structure_fees>>

\* C19: creating a candidate payment is refused with 404 when the candidate is
\* missing or inactive, with 400 when the candidate is FREE or is COURSE
\* without an active fee structure, and otherwise succeeds and adds exactly one
\* active payment; in the error cases no payment is added and no balance
\* changes.
C19_CandidatePaymentOutcome ==
    [][\A candidate_id \in Ids(candidates), body \in PaymentBodiesDay1 :
          create_candidate_payment(candidate_id, body) =>
              IF ~Active(candidates, candidate_id)
              THEN last'.code = 404 /\ PaymentsUnchanged
              ELSE IF \/ candidates[candidate_id].status = "FREE"
                      \/ /\ candidates[candidate_id].status = "COURSE"
                         /\ ActiveFeesOf(candidate_id) = {}
              THEN last'.code = 400 /\ PaymentsUnchanged
              ELSE /\ last'.code = 200
                   /\ Len(candidate_payments') = Len(candidate_payments) + 1
                   /\ candidate_payments'[Len(candidate_payments')].is_active
                   /\ \A p \in 1..Len(candidate_payments) :
                          candidate_payments'[p] = candidate_payments[p]
      ]_vars

\* recomputation does not apply to the candidate: not in status COURSE, or
\* without an active fee structure
NoRecomputation(candidate_id) ==
    \/ candidates[candidate_id].status # "COURSE"
    \/ ActiveFeesOf(candidate_id) = {}

BalancesKept ==
    /\ Len(course_structure_fees') = Len(course_structure_fees)
    /\ \A f \in 1..Len(course_structure_fees) :
           course_structure_fees'[f].balance = course_structure_fees[f].balance

\* C26: a create, update or soft-delete of a CandidatePayment whose candidate
\* is not in status COURSE, or has no active fee structure, succeeds and
\* leaves the balance of every fee structure as it was: the recomputation is
\* skipped, the balance is not zeroed.
C26_PaymentWithoutRecomputation ==
    [][/\ \A candidate_id \in 1..Len(candidates), body \in PaymentBodiesDay1 :
            (/\ create_candidate_payment(candidate_id, body)
             /\ candidates[candidate_id].is_active
             /\ candidates[candidate_id].status # "FREE"
             /\ NoRecomputation(candidate_id))
                => last'.code = 200 /\ BalancesKept
       /\ \A payment_id \in 1..Len(candidate_payments), body \in PaymentBodiesDay1 :
            (/\ update_candidate_payment(payment_id, body)
             /\ candidate_payments[payment_id].is_active
             /\ candidates[PaymentCandidate(payment_id)].is_active
             /\ NoRecomputation(PaymentCandidate(payment_id)))
                => last'.code = 200 /\ BalancesKept
       /\ \A payment_id \in 1..Len(candidate_payments) :
            (/\ delete_candidate_payment(payment_id)
             /\ candidate_payments[payment_id].is_active
             /\ candidates[PaymentCandidate(payment_id)].is_active
             /\ NoRecomputation(PaymentCandidate(payment_id)))
                => last'.code = 200 /\ BalancesKept
      ]_vars
---------------------------------------------------------------------------
(* The order of the JOINED validations *)

NextOrder ==
    \/ SetupJoin
    \/ JoinedRequests

SpecOrder == Init /\ [][NextOrder]_vars

\* the k-th condition of a JOINED request is violated
Violated(k, interview_id, body) ==
    CASE k = 1 -> body.doj = None \/ body.salary = None
      [] k = 2 -> body.placement_total_receivable = None
      [] k = 3 -> candidates[CandidateOf(interview_id)].employment_status = "EMPLOYED"
      [] k = 4 -> jobs[JobOf(interview_id)].num_vacancies <= 0
      [] k = 5 -> PairJoined(interview_id)

\* the error of the k-th condition
ErrorOf == <<400, 400, 409, 400, 409>>

\* C20: the validations of a JOINED transition are evaluated in the order
\* (1) doj and salary given, (2) placement_total_receivable given,
\* (3) candidate not EMPLOYED, (4) num_vacancies > 0, (5) no active joined row
\* for the pair, and a request that violates several of them gets the error of
\* the first one violated (400, 400, 409, 400, 409).
C20_FirstViolatedDecides ==
    [][\A interview_id \in 1..Len(interviews), body \in JoinedBodies :
          (/\ update_interview_status(interview_id, body)
           /\ interviews[interview_id].is_active
           /\ Active(jobs, JobOf(interview_id))
           /\ Active(candidates, CandidateOf(interview_id)))
              => \A k \in 1..5 :
                    (/\ Violated(k, interview_id, body)
                     /\ \A j \in 1..(k - 1) : ~Violated(j, interview_id, body))
                        => last'.code = ErrorOf[k]
      ]_vars

\* a complete request for an EMPLOYED candidate on a job without vacancies
\* got 409, not 400
C20_Witness ==
    /\ last.op = "update_interview_status"
    /\ last.code = 409
    /\ \E interview_id \in 1..Len(interviews) :
          /\ interviews[interview_id].is_active
          /\ interviews[interview_id].status = "SCHEDULED"
          /\ Active(jobs, JobOf(interview_id))
          /\ jobs[JobOf(interview_id)].num_vacancies = 0
          /\ Active(candidates, CandidateOf(interview_id))
          /\ candidates[CandidateOf(interview_id)].employment_status = "EMPLOYED"
---------------------------------------------------------------------------
(* The pending-dues list over placement incomes and fee structures *)

NextDues ==
    \/ create_company(<<>>)
    \/ /\ Len(jobs) = 0
       /\ create_job([company_id |-> 1, num_vacancies |-> 1, status |-> "OPEN"])
    \/ /\ Len(candidates) = 0
       /\ \E total_fee \in 0..MaxAmount, due_date \in OptDates :
              create_candidate(
                  [status |-> "COURSE",
                   fee_structure |-> [given |-> TRUE, total_fee |-> total_fee,
                                      due_date |-> due_date],
                   initial_payment |-> [given |-> TRUE, amount |-> 1,
                                        payment_date |-> 1]])
    \/ /\ Len(interviews) = 0
       /\ create_interview([company_id |-> 1, job_id |-> 1, candidate_id |-> 1,
                            status |-> "SCHEDULED"])
    \/ \E total_receivable \in Amounts, due_date \in OptDates :
           create_placement_income(
               [interview_id |-> 1, candidate_id |-> 1, job_id |-> 1,
                total_receivable |-> total_receivable, due_date |-> due_date])
    \/ \E income_id \in Ids(placement_incomes) :
           create_placement_income_payment(income_id,
               [amount |-> 1, paid_date |-> 1])
    \/ \E income_id \in Ids(placement_incomes) : delete_placement_income(income_id)
    \/ \E total_fee \in 0..MaxAmount, payment \in OptPaymentBodiesDay1 :
           update_candidate_status(1,
               [status |-> "COURSE",
                fee_structure |-> [given |-> TRUE, total_fee |-> total_fee,
                                   due_date |-> None],
                initial_payment |-> payment])
    \/ \E due_before \in OptDates : list_pending_dues(due_before)

SpecDues == Init /\ [][NextDues]_vars

\* the rows the list must hold for a cutoff
DueIncomes(due_before) ==
    {i \in 1..Len(placement_incomes) :
        /\ placement_incomes[i].is_active
        /\ placement_incomes[i].balance > 0
        /\ due_before # None =>
               /\ placement_incomes[i].due_date # None
               /\ placement_incomes[i].due_date <= due_before}
DueFees(due_before) ==
    {f \in 1..Len(course_structure_fees) :
        /\ course_structure_fees[f].is_active
        /\ course_structure_fees[f].balance > 0
        /\ due_before # None =>
               /\ course_structure_fees[f].due_date # None
               /\ course_structure_fees[f].due_date <= due_before}

\* the item of a row: tag, balance and total amount
Tagged(source, balance, total_amount) ==
    [source |-> source, balance |-> balance, total_amount |-> total_amount]
TagOf(item) == Tagged(item.source, item.balance, item.total_amount)

\* C21: the pending-dues list holds exactly the active PlacementIncome rows
\* with balance > 0 and the active CourseStructureFee rows with balance > 0
\* (with due_date <= cutoff when a cutoff is given), tagged
\* PLACEMENT_INCOME_PENDING and COURSE_FEE_PENDING, and every item has
\* total_received = total_amount - balance.
C21_PendingDuesExact ==
    reply.op = "list_pending_dues" =>
        LET items == reply.items
            expected ==
                {Tagged("PLACEMENT_INCOME_PENDING", placement_incomes[i].balance,
                        placement_incomes[i].total_receivable) :
                    i \in DueIncomes(reply.due_before)}
                \cup
                {Tagged("COURSE_FEE_PENDING", course_structure_fees[f].balance,
                        course_structure_fees[f].total_fee) :
                    f \in DueFees(reply.due_before)}
        IN /\ Len(items) = Cardinality(DueIncomes(reply.due_before))
                           + Cardinality(DueFees(reply.due_before))
           /\ \A tag \in expected \cup {TagOf(items[k]) : k \in 1..Len(items)} :
                  Cardinality({k \in 1..Len(items) : TagOf(items[k]) = tag})
                      = Cardinality(
                            {i \in DueIncomes(reply.due_before) :
                                tag = Tagged("PLACEMENT_INCOME_PENDING",
                                             placement_incomes[i].balance,
                                             placement_incomes[i].total_receivable)})
                        + Cardinality(
                            {f \in DueFees(reply.due_before) :
                                tag = Tagged("COURSE_FEE_PENDING",
                                             course_structure_fees[f].balance,
                                             course_structure_fees[f].total_fee)})
           /\ \A k \in 1..Len(items) :
                  items[k].total_received
                      = items[k].total_amount - items[k].balance

\* a cutoff left out an income without due date and one that is received in
\* full, and kept a partly received income and the fee structure
C21_Witness ==
    /\ reply.op = "list_pending_dues"
    /\ reply.due_before = 1
    /\ Len(reply.items) = 2
    /\ \E k \in 1..2 : /\ reply.items[k].source = "PLACEMENT_INCOME_PENDING"
                       /\ reply.items[k].total_received = 1
    /\ \E k \in 1..2 : reply.items[k].source = "COURSE_FEE_PENDING"
    /\ \E i \in 1..Len(placement_incomes) :
           placement_incomes[i].is_active /\ placement_incomes[i].balance = 0
    /\ Len(placement_incomes) = 2
---------------------------------------------------------------------------
(* The finance breakdown over the three payment streams *)

\* days of two months
BreakdownDates == 1..(MaxDate + 1)

NextBreakdown ==
    \/ create_company(<<[amount |-> 1, payment_date |-> 1]>>)
    \/ \E payment_date \in BreakdownDates :
           create_company_payment(1, [amount |-> 2, payment_date |-> payment_date])
    \/ /\ Len(jobs) = 0
       /\ create_job([company_id |-> 1, num_vacancies |-> 1, status |-> "OPEN"])
    \/ /\ Len(candidates) = 0
       /\ \E payment_date \in BreakdownDates :
              create_candidate(
                  [status |-> "REGISTERED", fee_structure |-> NoFeeBody,
                   initial_payment |-> [given |-> TRUE, amount |-> 1,
                                        payment_date |-> payment_date]])
    \/ /\ Len(interviews) = 0
       /\ create_interview([company_id |-> 1, job_id |-> 1, candidate_id |-> 1,
                            status |-> "SCHEDULED"])
    \/ /\ Len(placement_incomes) = 0
       /\ create_placement_income([interview_id |-> 1, candidate_id |-> 1,
                                   job_id |-> 1, total_receivable |-> 2,
                                   due_date |-> 1])
    \/ \E paid_date \in BreakdownDates :
           create_placement_income_payment(1, [amount |-> 1, paid_date |-> paid_date])
    \/ \E payment_id \in 1..Len(placement_income_payments) :
           delete_placement_income_payment(payment_id)
    \/ \E start_date \in {None, 2}, end_date \in {None, 2},
          group_by \in {"day", "month", "week"} :
           finance_breakdown(start_date, end_date, group_by)

SpecBreakdown == Init /\ [][NextBreakdown]_vars

\* the period of a date
PeriodOf(group_by, date) ==
    IF group_by = "day" THEN date ELSE date \div DaysInMonth

\* the counted payments of a stream that fall into a period of the request
Counted(rows, dates, period) ==
    {p \in 1..Len(rows) :
        /\ dates[p] # None
        /\ reply.start_date # None => dates[p] >= reply.start_date
        /\ reply.end_date # None => dates[p] <= reply.end_date
        /\ PeriodOf(reply.group_by, dates[p]) = period}

CompanyDates ==
    [p \in 1..Len(company_payments) |->
        IF company_payments[p].exists THEN company_payments[p].payment_date
        ELSE None]
CandidateDates ==
    [p \in 1..Len(candidate_payments) |->
        IF candidate_payments[p].is_active THEN candidate_payments[p].payment_date
        ELSE None]
PlacementDates ==
    [p \in 1..Len(placement_income_payments) |->
        IF placement_income_payments[p].is_active
        THEN placement_income_payments[p].paid_date ELSE None]

AllPeriods == 0..(MaxDate + 1)

\* C22: the finance breakdown returns one row for each period in which one
\* of the three streams (all company payments, active candidate payments,
\* active placement-income payments, within the date range) has a payment;
\* a row carries the three amounts, 0 for a stream without payment in the
\* period, and their sum as total; a group_by other than day or month is
\* rejected with 400.
C22_BreakdownRows ==
    reply.op = "finance_breakdown" =>
        IF reply.group_by \notin {"day", "month"}
        THEN last.code = 400
        ELSE LET items == reply.items
                 active == {period \in AllPeriods :
                               \/ Counted(company_payments, CompanyDates, period) # {}
                               \/ Counted(candidate_payments, CandidateDates, period) # {}
                               \/ Counted(placement_income_payments, PlacementDates,
                                          period) # {}}
             IN /\ last.code = 200
                /\ {items[k].period : k \in 1..Len(items)} = active
                /\ Len(items) = Cardinality(active)
                /\ \A k \in 1..Len(items) :
                      /\ items[k].company_payments =
                             SumOver(company_payments,
                                 Counted(company_payments, CompanyDates,
                                         items[k].period))
                      /\ items[k].candidate_payments =
                             SumOver(candidate_payments,
                                 Counted(candidate_payments, CandidateDates,
                                         items[k].period))
                      /\ items[k].placement_income =
                             SumOver(placement_income_payments,
                                 Counted(placement_income_payments, PlacementDates,
                                         items[k].period))
                      /\ items[k].total = items[k].company_payments
                                          + items[k].candidate_payments
                                          + items[k].placement_income

\* by month, two rows: one month with company and candidate payments and no
\* counted placement payment (its only one is soft-deleted), one with a
\* company payment alone
C22_Witness ==
    /\ reply.op = "finance_breakdown"
    /\ reply.group_by = "month"
    /\ reply.start_date = None /\ reply.end_date = None
    /\ Len(reply.items) = 2
    /\ reply.items[1].company_payments = 1
    /\ reply.items[1].candidate_payments = 1
    /\ reply.items[1].placement_income = 0
    /\ reply.items[2].total = 2
    /\ \E p \in 1..Len(placement_income_payments) :
           ~placement_income_payments[p].is_active
---------------------------------------------------------------------------
(* Status transitions to a status other than JOINED *)

\* a transition to another status, with or without the JOINED fields
OtherBodies ==
    {[body EXCEPT !.status = status] :
        body \in {JoinedBody(None), OnHoldBody},
        status \in InterviewStatus \ {"JOINED"}}

NextFrame ==
    \/ SetupJoin
    \/ \E interview_id \in Ids(interviews) :
           update_interview_status(interview_id, JoinedBody(None))
    \/ \E interview_id \in Ids(interviews), body \in OtherBodies :
           update_interview_status(interview_id, body)

SpecFrame == Init /\ [][NextFrame]_vars

\* no interview becomes JOINED in the step
NoneJoins ==
    \A interview_id \in 1..Len(interviews) :
        interviews'[interview_id].status = "JOINED"
            => interviews[interview_id].status = "JOINED"

\* C24: a status transition of an interview to a status other than JOINED
\* changes interview.status only: num_vacancies and status of the job,
\* employment_status of the candidate, the Joined_candidates rows and the
\* PlacementIncome rows stay as they are, and the placement_income_id
\* returned is null.
C24_OtherStatusOnlyStatus ==
    [][(/\ last'.op = "update_interview_status"
        /\ last'.code = 200
        /\ NoneJoins)
           => /\ UNCHANGED <<jobs, candidates, joined_candidates, placement_incomes>>
              /\ last'.ret = None
              /\ Len(interviews') = Len(interviews)
              /\ \A interview_id \in 1..Len(interviews) :
                     interviews'[interview_id] =
                         [interviews[interview_id] EXCEPT
                             !.status = interviews'[interview_id].status]
      ]_vars

\* an interview that had joined was moved to REJECTED_BY_CANDIDATE: the
\* joined row, the income, the vacancy taken and EMPLOYED are still there
C24_Witness ==
    /\ last.op = "update_interview_status"
    /\ last.code = 200
    /\ last.ret = None
    /\ Len(interviews) = 1
    /\ interviews[1].status = "REJECTED_BY_CANDIDATE"
    /\ Len(joined_candidates) = 1
    /\ Len(placement_incomes) = 1
    /\ jobs[1].num_vacancies = 0
    /\ candidates[CandidateOf(1)].employment_status = "EMPLOYED"
---------------------------------------------------------------------------
(* The ledger label of candidate payments across a status change *)

RelabelQueries ==
    {Unfiltered,
     [Unfiltered EXCEPT !.source = {"COURSE_FEE"}],
     [Unfiltered EXCEPT !.source = {"REGISTRATION_FEE"}]}

\* candidates are registered with a payment, enter the course with a fee
\* structure and may go back
NextRelabel ==
    \/ create_candidate(
           [status |-> "REGISTERED", fee_structure |-> NoFeeBody,
            initial_payment |-> [given |-> TRUE, amount |-> 1, payment_date |-> 1]])
    \/ \E candidate_id \in Ids(candidates), payment \in OptPaymentBodiesDay1 :
           update_candidate_status(candidate_id,
               [status |-> "COURSE",
                fee_structure |-> [given |-> TRUE, total_fee |-> MaxAmount,
                                   due_date |-> None],
                initial_payment |-> payment])
    \/ \E candidate_id \in Ids(candidates) :
           update_candidate_status(candidate_id,
               [status |-> "REGISTERED", fee_structure |-> NoFeeBody,
                initial_payment |-> NoPaymentBody])
    \/ Tick
    \/ \E q \in RelabelQueries : list_payment_ledger(1, MaxLimit, q)

SpecRelabel == Init /\ [][NextRelabel]_vars

\* the label of a candidate payment by the current status of its candidate
CurrentLabel(payment_id) ==
    IF candidates[candidate_payments[payment_id].candidate_id].status = "COURSE"
    THEN "COURSE_FEE" ELSE "REGISTRATION_FEE"

\* C25: in the ledger a candidate payment row has source COURSE_FEE if the
\* current status of its candidate is COURSE and REGISTRATION_FEE otherwise,
\* and candidate_payment_type equal to source; so the payments a candidate
\* made before changing from REGISTERED to COURSE are listed as COURSE_FEE
\* afterwards, and a source filter selects rows by the current label.
C25_LabelByCurrentStatus ==
    (last.op = "list_payment_ledger" /\ Len(pages.got) = 1) =>
        LET items == pages.got[1]
            listed == {items[k].id : k \in 1..Len(items)}
        IN /\ \A k \in 1..Len(items) :
                  /\ items[k].source \in {"COURSE_FEE", "REGISTRATION_FEE"}
                  /\ items[k].source = CurrentLabel(items[k].id)
                  /\ items[k].candidate_payment_type = items[k].source
           /\ \A p \in 1..Len(candidate_payments) :
                  p \in listed <=>
                      /\ candidate_payments[p].is_active
                      /\ pages.query.source # {} =>
                             CurrentLabel(p) \in pages.query.source

\* the payment of the registration, made before the candidate entered the
\* course, is found under COURSE_FEE together with a later one
C25_Witness ==
    /\ last.op = "list_payment_ledger"
    /\ pages.query = [Unfiltered EXCEPT !.source = {"COURSE_FEE"}]
    /\ Len(pages.got) = 1
    /\ Len(pages.got[1]) = 2
    /\ candidates[1].status = "COURSE"
    /\ \E k \in 1..2 : /\ pages.got[1][k].candidate_id = 1
                       /\ pages.got[1][k].created_at = 1
    /\ \E k \in 1..2 : /\ pages.got[1][k].candidate_id = 1
                       /\ pages.got[1][k].created_at = 2
---------------------------------------------------------------------------
(* Employment of candidates over several jobs *)

NextEmployed ==
    \/ create_company(<<>>)
    \/ \E num_vacancies \in 1..MaxVacancies :
           create_job([company_id |-> 1, num_vacancies |-> num_vacancies,
                       status |-> "OPEN"])
    \/ create_candidate(FreeCandidate)
    \/ \E job_id \in 1..MaxJobs, candidate_id \in 1..MaxCandidates :
           create_interview([company_id |-> 1, job_id |-> job_id,
                             candidate_id |-> candidate_id, status |-> "SCHEDULED"])
    \/ \E interview_id \in Ids(interviews), body \in {JoinedBody(None), OnHoldBody} :
           update_interview_status(interview_id, body)
    \/ \E interview_id \in Ids(interviews) : delete_interview(interview_id)
    \/ \E candidate_id \in Ids(candidates) :
           update_candidate(candidate_id, DeactivateCandidate)

SpecEmployed == Init /\ [][NextEmployed]_vars

\* the active Joined_candidates rows of a candidate, over all jobs
JoinedRowsOf(candidate_id) ==
    {r \in 1..Len(joined_candidates) :
        /\ joined_candidates[r].is_active
        /\ joined_candidates[r].candidate_id = candidate_id}

\* C27: in every state reached by serially executed requests, a candidate is
\* EMPLOYED if and only if it has an active Joined_candidates row, and no
\* candidate has more than one active Joined_candidates row over all jobs.
C27_EmployedIffJoined ==
    \A candidate_id \in 1..Len(candidates) :
        /\ candidates[candidate_id].employment_status = "EMPLOYED"
               <=> JoinedRowsOf(candidate_id) # {}
        /\ Cardinality(JoinedRowsOf(candidate_id)) <= 1

\* a candidate who joined one job was refused at the other job, which has a
\* vacancy
C27_Witness ==
    /\ last.op = "update_interview_status"
    /\ last.code = 409
    /\ Len(jobs) = 2
    /\ \E interview_id \in 1..Len(interviews) :
          /\ interviews[interview_id].is_active
          /\ interviews[interview_id].status = "SCHEDULED"
          /\ jobs[JobOf(interview_id)].num_vacancies > 0
          /\ ~PairJoined(interview_id)
          /\ candidates[CandidateOf(interview_id)].employment_status = "EMPLOYED"
          /\ Cardinality(JoinedRowsOf(CandidateOf(interview_id))) = 1
---------------------------------------------------------------------------
(* Vacancies and joined rows of jobs that no request updates *)

\* the vacancies a job is created with
CreatedVacancies(job_id) == MaxVacancies + 1 - job_id

NextCount ==
    \/ create_company(<<>>)
    \/ create_job([company_id |-> 1,
                   num_vacancies |-> CreatedVacancies(Len(jobs) + 1),
                   status |-> "OPEN"])
    \/ create_candidate(FreeCandidate)
    \/ \E job_id \in 1..MaxJobs, candidate_id \in 1..MaxCandidates :
           create_interview([company_id |-> 1, job_id |-> job_id,
                             candidate_id |-> candidate_id, status |-> "SCHEDULED"])
    \/ \E interview_id \in Ids(interviews), body \in {JoinedBody(None), OnHoldBody} :
           update_interview_status(interview_id, body)
    \/ \E interview_id \in Ids(interviews) : delete_interview(interview_id)

SpecCount == Init /\ [][NextCount]_vars

\* C28: for a job that only JOINED transitions change (no job update
\* request), num_vacancies plus the number of active Joined_candidates rows
\* of the job equals the num_vacancies it was created with, in every
\* reachable state, and num_vacancies is never negative.
C28_VacanciesPlusJoined ==
    \A job_id \in 1..Len(jobs) :
        /\ jobs[job_id].num_vacancies + Cardinality(JoinedOf(job_id))
               = CreatedVacancies(job_id)
        /\ jobs[job_id].num_vacancies >= 0

\* two candidates have joined the first job and taken all its vacancies
C28_Witness ==
    /\ last.op = "update_interview_status"
    /\ last.code = 200
    /\ Len(jobs) >= 1
    /\ jobs[1].num_vacancies = 0
    /\ Cardinality(JoinedOf(1)) = CreatedVacancies(1)
    /\ Cardinality(JoinedOf(1)) >= 2
---------------------------------------------------------------------------
(* Soft-deleted payments *)

IncomePaymentUpdates ==
    [amount : OptAmounts, paid_date : {None}, is_active : OptBools]

NextSoftDelete ==
    \/ create_company(<<>>)
    \/ /\ Len(jobs) = 0
       /\ create_job([company_id |-> 1, num_vacancies |-> 1, status |-> "OPEN"])
    \/ /\ Len(candidates) = 0
       /\ create_candidate(
              [status |-> "REGISTERED", fee_structure |-> NoFeeBody,
               initial_payment |-> [given |-> TRUE, amount |-> 1,
                                    payment_date |-> 1]])
    \/ /\ Len(interviews) = 0
       /\ create_interview([company_id |-> 1, job_id |-> 1, candidate_id |-> 1,
                            status |-> "SCHEDULED"])
    \/ /\ Len(placement_incomes) = 0
       /\ create_placement_income([interview_id |-> 1, candidate_id |-> 1,
                                   job_id |-> 1, total_receivable |-> MaxAmount,
                                   due_date |-> 1])
    \/ \E amount \in Amounts :
           create_placement_income_payment(1, [amount |-> amount, paid_date |-> 1])
    \/ \E payment_id \in Ids(placement_income_payments),
          body \in IncomePaymentUpdates :
           update_placement_income_payment(payment_id, body)
    \/ \E payment_id \in Ids(placement_income_payments) :
           delete_placement_income_payment(payment_id)
    \/ \E payment_id \in Ids(candidate_payments), body \in PaymentBodiesDay1 :
           update_candidate_payment(payment_id, body)
    \/ \E payment_id \in Ids(candidate_payments) :
           delete_candidate_payment(payment_id)

SpecSoftDelete == Init /\ [][NextSoftDelete]_vars

\* the request is refused as not found and writes nothing
NotFound == last'.code = 404 /\ UNCHANGED dbvars

\* C29: soft-deletion of a payment is irreversible: once a CandidatePayment
\* or PlacementIncomePayment has is_active false, every later update or
\* delete request for it returns 404 and changes nothing, so the payment is
\* never active again and never again counts in a balance.
C29_SoftDeleteIrreversible ==
    [][/\ \A p \in 1..Len(placement_income_payments) :
            ~placement_income_payments[p].is_active =>
                /\ placement_income_payments'[p] = placement_income_payments[p]
                /\ \A body \in IncomePaymentUpdates :
                       update_placement_income_payment(p, body) => NotFound
                /\ delete_placement_income_payment(p) => NotFound
       /\ \A p \in 1..Len(candidate_payments) :
            ~candidate_payments[p].is_active =>
                /\ candidate_payments'[p] = candidate_payments[p]
                /\ \A body \in PaymentBodiesDay1 :
                       update_candidate_payment(p, body) => NotFound
                /\ delete_candidate_payment(p) => NotFound
       /\ \A income_id \in 1..Len(placement_incomes') :
            placement_incomes'[income_id].total_received =
                SumOver(placement_income_payments',
                        {p \in 1..Len(placement_income_payments') :
                            /\ placement_income_payments'[p].is_active
                            /\ placement_income_payments'[p].placement_income_id
                                   = income_id})
      ]_vars

\* a request for a soft-deleted placement payment was refused; the income
\* counts the other payment only
C29_Witness ==
    /\ last.op \in {"update_placement_income_payment",
                    "delete_placement_income_payment"}
    /\ last.code = 404
    /\ Len(placement_income_payments) = 2
    /\ ~placement_income_payments[1].is_active
    /\ placement_income_payments[2].is_active
    /\ Active(placement_incomes, 1)
    /\ placement_incomes[1].total_received = placement_income_payments[2].amount
---------------------------------------------------------------------------
(* How an interview comes to be JOINED *)

NextReach ==
    \/ create_company(<<>>)
    \/ /\ Len(jobs) = 0
       /\ \E num_vacancies \in 1..MaxVacancies :
              create_job([company_id |-> 1, num_vacancies |-> num_vacancies,
                          status |-> "OPEN"])
    \/ create_candidate(FreeCandidate)
    \/ \E candidate_id \in 1..MaxCandidates, status \in InterviewStatus :
           create_interview([company_id |-> 1, job_id |-> 1,
                             candidate_id |-> candidate_id, status |-> status])
    \/ \E interview_id \in Ids(interviews),
          candidate_id \in 0..MaxCandidates,
          status \in {"None"} \cup InterviewStatus :
           update_interview(interview_id,
               [job_id |-> None, candidate_id |-> candidate_id,
                status |-> status, is_active |-> "None"])
    \/ JoinedRequests

SpecReach == Init /\ [][NextReach]_vars

\* C30: in every state reached by interview create, interview update and
\* interview status-transition requests, every active interview whose status
\* is JOINED has an active Joined_candidates row for its (job, candidate)
\* pair and its candidate is EMPLOYED.
C30_JoinedOnlyByTransition ==
    \A interview_id \in 1..Len(interviews) :
        (interviews[interview_id].is_active
            /\ interviews[interview_id].status = "JOINED")
        => /\ \E j \in 1..Len(joined_candidates) :
                 /\ joined_candidates[j].is_active
                 /\ joined_candidates[j].job_id = interviews[interview_id].job_id
                 /\ joined_candidates[j].candidate_id
                        = interviews[interview_id].candidate_id
           /\ candidates[interviews[interview_id].candidate_id].employment_status
                  = "EMPLOYED"
=============================================================================
